---- MODULE Spec2Model ----
(***************************************************************************)
(* Camera controller of raylib (rcamera.h) over the input state of rcore.  *)
(*                                                                         *)
(* Numbers.  The C code computes in float.  The model computes in decimal  *)
(* fixed point: an integer n stands for the real n / Scale, so 0.001 is    *)
(* 10000 and 0.7071 is 7071000.  Every product, quotient, root and         *)
(* trigonometric value is rounded to a multiple of 1/Scale (ties away from *)
(* zero, sign-symmetric like IEEE rounding); sums and differences are      *)
(* exact.  Magnitudes stay within 100.0, so that every intermediate        *)
(* integer stays below 2^31.                                               *)
(***************************************************************************)
EXTENDS Integers, Sequences, FiniteSets

\* Fixed-point unit: Scale stands for 1.0
Scale == 1000 * 10000

Abs(x) == IF x < 0 THEN -x ELSE x

Sgn(x) == IF x < 0 THEN -1 ELSE IF x > 0 THEN 1 ELSE 0

Min(a, b) == IF a < b THEN a ELSE b

Max(a, b) == IF a < b THEN b ELSE a

\* n / d for d > 0, rounded to nearest, ties away from zero
RoundDiv[n \in Int, d \in Nat] == Sgn(n) * ((Abs(n) + d \div 2) \div d)

\* the partial products of the limbs of lo = ah*10^3 + al and hi = bh*10^4 + bl
MulLimbs[ah \in Nat, al \in Nat, bh \in Nat, bl \in Nat] ==
    ah * bh + (ah * bl) \div 10000 + (al * bh) \div 1000
        + RoundDiv[((ah * bl) % 10000) * 1000 + ((al * bh) % 1000) * 10000 + al * bl, Scale]

\* the product of lo <= hi, both >= 0
MulOrdered[lo \in Nat, hi \in Nat] == MulLimbs[lo \div 1000, lo % 1000, hi \div 10000, hi % 10000]

\* float product a*b; the smaller operand is at most 20.0.  The operands are
\* split in limbs to keep the partial products below 2^31
Mul[a \in Int, b \in Int] == Sgn(a) * Sgn(b) * MulOrdered[Min(Abs(a), Abs(b)), Max(Abs(a), Abs(b))]

\* the least power of two p with m * p >= floor, for 0 < m and floor <= 2^25
Doubling[m \in Nat, floor \in Nat] ==
    2^(CHOOSE k \in 0..25 : m * 2^k >= floor /\ (k = 0 \/ m * 2^(k - 1) < floor))

\* the least power of two p with m / p < ceiling, for ceiling >= 2^23
Halving[m \in Nat, ceiling \in Nat] ==
    2^(CHOOSE k \in 0..8 : m \div 2^k < ceiling /\ (k = 0 \/ m \div 2^(k - 1) >= ceiling))

\* the largest magnitude of three numbers
Largest[x \in Int, y \in Int, z \in Int] == Max(Abs(x), Max(Abs(y), Abs(z)))

\* (q + r / d) * 10^k for 0 <= r < d <= 2 * 10^8: k digits of long division,
\* the last one rounded
DivDigits[r \in Nat, d \in Nat, k \in 0..7, q \in Nat] ==
    IF k = 0 THEN q + (IF 2 * r >= d THEN 1 ELSE 0)
    ELSE DivDigits[(10 * r) % d, d, k - 1, 10 * q + (10 * r) \div d]

\* float quotient a/b for b # 0 by long division, seven decimal digits after
\* the point; a divisor above 20.0 is first shortened by one digit
Div[a \in Int, b \in Int] ==
    IF Abs(b) > 20 * Scale THEN Div[RoundDiv[a, 10], RoundDiv[b, 10]]
    ELSE Sgn(a) * Sgn(b) * ((Abs(a) \div Abs(b)) * Scale + DivDigits[Abs(a) % Abs(b), Abs(b), 7, 0])

----------------------------------------------------------------------------
(* sqrtf of a sum of squares.  The operands are brought into [2.0, 4.0) by *)
(* a power of two, the root is taken by four steps of Newton's iteration   *)
(* from an estimate at most 16% above it, and the result is scaled back.   *)

\* k steps of Newton's iteration for the root of s from the estimate r > 0
SqrtNewton[s \in Nat, r \in Nat, k \in 0..4] ==
    IF k = 0 THEN r ELSE SqrtNewton[s, RoundDiv[r + Div[s, r], 2], k - 1]

\* the root for operands in [2.0, 4.0)
Hypot3Root[xs \in Int, ys \in Int, zs \in Int] ==
    SqrtNewton[Mul[xs, xs] + Mul[ys, ys] + Mul[zs, zs],
               Largest[xs, ys, zs] + (Abs(xs) + Abs(ys) + Abs(zs) - Largest[xs, ys, zs]) \div 2,
               4]

\* the root of the operands scaled by up / down, scaled back
Hypot3Scaled[x \in Int, y \in Int, z \in Int, up \in Nat, down \in Nat] ==
    RoundDiv[Hypot3Root[RoundDiv[x * up, down], RoundDiv[y * up, down], RoundDiv[z * up, down]]
                 * down, up]

Hypot3[x \in Int, y \in Int, z \in Int] ==
    IF Largest[x, y, z] = 0 THEN 0
    ELSE Hypot3Scaled[x, y, z, Doubling[Largest[x, y, z], 2 * Scale],
                      Halving[Largest[x, y, z], 4 * Scale]]

----------------------------------------------------------------------------
(* sinf, cosf, atan2f                                                      *)

\* pi = 3.1415927
rl_PI == 31415927

HalfPI == rl_PI \div 2

QuarterPI == (rl_PI + 2) \div 4

\* angle reduced into [-pi, pi]
WrapAngle[a \in Int] ==
    IF a > rl_PI THEN WrapAngle[a - 2 * rl_PI]
    ELSE IF a < -rl_PI THEN WrapAngle[a + 2 * rl_PI]
    ELSE a

\* k steps of Horner's scheme for a Taylor series in x2 = x^2: a step takes acc
\* to 1 - x2 acc / (2k (2k + shift))
Horner[x2 \in Nat, k \in 0..5, shift \in {-1, 1}, acc \in Int] ==
    IF k = 0 THEN acc
    ELSE Horner[x2, k - 1, shift, Scale - RoundDiv[Mul[x2, acc], 2 * k * (2 * k + shift)]]

\* Taylor series of sin on [-pi/4, pi/4], to the x^11 term
SinSeries[x \in Int] == Mul[x, Horner[Mul[x, x], 5, 1, Scale]]

\* Taylor series of cos on [-pi/4, pi/4], to the x^10 term
CosSeries[x \in Int] == Horner[Mul[x, x], 5, -1, Scale]

\* sin on [-pi/2, pi/2]
SinHalf[x \in Int] ==
    IF Abs(x) > QuarterPI THEN Sgn(x) * CosSeries[HalfPI - Abs(x)] ELSE SinSeries[x]

\* cos on [0, pi/2]
CosHalf[x \in Int] == IF x > QuarterPI THEN SinSeries[HalfPI - x] ELSE CosSeries[x]

\* x in [-pi, pi] folded into [-pi/2, pi/2] with the same sine
FoldSin[x \in Int] ==
    IF x > HalfPI THEN Min(rl_PI - x, HalfPI)
    ELSE IF x < -HalfPI THEN Max(-rl_PI - x, -HalfPI)
    ELSE x

Sin[a \in Int] == SinHalf[FoldSin[WrapAngle[a]]]

\* cos on [0, pi]
CosFold[x \in Int] == IF x > HalfPI THEN -CosHalf[Min(rl_PI - x, HalfPI)] ELSE CosHalf[x]

Cos[a \in Int] == CosFold[Abs(WrapAngle[a])]

\* Newton's iteration for the angle a with sin(phi - a) = 0, where (c, s) is
\* the unit vector (cos phi, sin phi): a' = a + sin(phi - a); k steps from a
AtanNewton[s \in Int, c \in Int, k \in 0..3, a \in Int] ==
    IF k = 0 THEN Max(0, Min(rl_PI, a))
    ELSE AtanNewton[s, c, k - 1, a + Mul[s, Cos[a]] - Mul[c, Sin[a]]]

\* the angle of the unit vector (c, s), s >= 0: from the estimate (1 - c) pi/2,
\* at most 0.33 off, three steps reach 10^-7
AtanUnit[s \in Int, c \in Int] == AtanNewton[s, c, 3, HalfPI - Mul[c, HalfPI]]

\* the angle of the vector (x, y) of length r
AtanScaled[y \in Int, x \in Int, r \in Int] == AtanUnit[Div[y, r], Div[x, r]]

\* atan2f(y, x) for y >= 0, in [0, pi]; it depends on the ratio only, so short
\* operands are first doubled until one of them reaches 1.0
Atan2[y \in Int, x \in Int] ==
    IF y = 0 THEN (IF x >= 0 THEN 0 ELSE rl_PI)
    ELSE AtanScaled[y * Doubling[Max(y, Abs(x)), Scale], x * Doubling[Max(y, Abs(x)), Scale],
                    Hypot3[y * Doubling[Max(y, Abs(x)), Scale],
                           x * Doubling[Max(y, Abs(x)), Scale], 0]]

----------------------------------------------------------------------------
(* raymath.h: rl_Vector3 and rl_Matrix operations                          *)

Vec(x, y, z) == [x |-> x, y |-> y, z |-> z]

\* raylib.h: struct rl_Vector3, the set of its values
rl_Vector3 == [x : Int, y : Int, z : Int]

Vector3Add[v1 \in rl_Vector3, v2 \in rl_Vector3] == Vec(v1.x + v2.x, v1.y + v2.y, v1.z + v2.z)

Vector3Subtract[v1 \in rl_Vector3, v2 \in rl_Vector3] == Vec(v1.x - v2.x, v1.y - v2.y, v1.z - v2.z)

Vector3Scale[v \in rl_Vector3, s \in Int] == Vec(Mul[v.x, s], Mul[v.y, s], Mul[v.z, s])

Vector3Negate[v \in rl_Vector3] == Vec(-v.x, -v.y, -v.z)

Vector3Length[v \in rl_Vector3] == Hypot3[v.x, v.y, v.z]

Vector3Distance[v1 \in rl_Vector3, v2 \in rl_Vector3] == Vector3Length[Vector3Subtract[v2, v1]]

Vector3DotProduct[v1 \in rl_Vector3, v2 \in rl_Vector3] ==
    Mul[v1.x, v2.x] + Mul[v1.y, v2.y] + Mul[v1.z, v2.z]

Vector3CrossProduct[v1 \in rl_Vector3, v2 \in rl_Vector3] ==
    Vec(Mul[v1.y, v2.z] - Mul[v1.z, v2.y],
                  Mul[v1.z, v2.x] - Mul[v1.x, v2.z],
                  Mul[v1.x, v2.y] - Mul[v1.y, v2.x])

\* v with every component multiplied by the integer p
Vector3Times[v \in rl_Vector3, p \in Nat] == Vec(p * v.x, p * v.y, p * v.z)

\* a float keeps its relative precision however short the vector: a direction
\* is taken from the vector doubled until a component reaches 1
Upscale[v \in rl_Vector3] ==
    IF Largest[v.x, v.y, v.z] = 0 THEN v
                 ELSE Vector3Times[v, Doubling[Largest[v.x, v.y, v.z], Scale]]

\* v divided by length; the zero vector, of length 0, is returned as it is
Vector3Divide[v \in rl_Vector3, length \in Int] ==
    IF length # 0 THEN Vec(Div[v.x, length], Div[v.y, length], Div[v.z, length])
              ELSE v

\* the unit vector along u
Vector3Unit[u \in rl_Vector3] == Vector3Divide[u, Vector3Length[u]]

Vector3Normalize[v \in rl_Vector3] == Vector3Unit[Upscale[v]]

\* atan2f(|u1 x u2|, u1 . u2)
Vector3AngleScaled[u1 \in rl_Vector3, u2 \in rl_Vector3] ==
    Atan2[Vector3Length[Vector3CrossProduct[u1, u2]], Vector3DotProduct[u1, u2]]

\* atan2f(|v1 x v2|, v1 . v2), in [0, pi]
Vector3Angle[v1 \in rl_Vector3, v2 \in rl_Vector3] == Vector3AngleScaled[Upscale[v1], Upscale[v2]]

\* v + 2a wv + 2 w x wv, where wv = w x v
Vector3RotateSum[v \in rl_Vector3, w \in rl_Vector3, a \in Int, wv \in rl_Vector3] ==
    Vector3Add[v, Vector3Add[Vector3Scale[wv, 2 * a],
                                       Vector3Scale[Vector3CrossProduct[w, wv], 2 * Scale]]]

\* the rotation of v by the quaternion (w, a)
Vector3RotateByQuaternion[v \in rl_Vector3, w \in rl_Vector3, a \in Int] ==
    Vector3RotateSum[v, w, a, Vector3CrossProduct[w, v]]

\* Rodrigues' rotation in its Euler-Rodrigues form: v + 2a (w x v) + 2 w x (w x v)
\* with w = sin(angle/2) axis/|axis| and a = cos(angle/2); a zero axis gives v
Vector3RotateByAxisAngle[v \in rl_Vector3, axis \in rl_Vector3, angle \in Int] ==
    Vector3RotateByQuaternion[v, Vector3Scale[Vector3Normalize[axis], Sin[RoundDiv[angle, 2]]],
                              Cos[RoundDiv[angle, 2]]]

\* the rotation matrix about the unit axis n, from the sine and cosine of the
\* angle, as its three rows
MatrixRotateUnit[n \in rl_Vector3, s \in Int, c \in Int] ==
    <<Vec(Mul[Mul[n.x, n.x], Scale - c] + c,
              Mul[Mul[n.x, n.y], Scale - c] - Mul[n.z, s],
              Mul[Mul[n.x, n.z], Scale - c] + Mul[n.y, s]),
          Vec(Mul[Mul[n.y, n.x], Scale - c] + Mul[n.z, s],
              Mul[Mul[n.y, n.y], Scale - c] + c,
              Mul[Mul[n.y, n.z], Scale - c] - Mul[n.x, s]),
          Vec(Mul[Mul[n.z, n.x], Scale - c] - Mul[n.y, s],
              Mul[Mul[n.z, n.y], Scale - c] + Mul[n.x, s],
              Mul[Mul[n.z, n.z], Scale - c] + c)>>

\* rotation matrix about axis (normalized unless zero)
MatrixRotate[axis \in rl_Vector3, angle \in Int] ==
    MatrixRotateUnit[Vector3Normalize[axis], Sin[angle], Cos[angle]]

\* matrix times vector (a rotation matrix has no translation part)
Vector3Transform[v \in rl_Vector3, mat \in Seq(rl_Vector3)] ==
    Vec(Vector3DotProduct[mat[1], v], Vector3DotProduct[mat[2], v],
                  Vector3DotProduct[mat[3], v])

----------------------------------------------------------------------------
(* rcamera.h: camera primitives.  A camera is a record                     *)
(* [position, target, up, fovy, projection].                               *)

\* the decimal literal n/d, d a power of ten (Frac(1, 1000) is 0.001f)
Frac(n, d) == n * (Scale \div d)

\* raylib.h: struct rl_Camera3D, the set of its values
rl_Camera3D ==
    [position : rl_Vector3, target : rl_Vector3, up : rl_Vector3, fovy : Int, projection : Int]

GetCameraForward(camera) ==
    Vector3Normalize[Vector3Subtract[camera.target, camera.position]]

GetCameraUp(camera) == Vector3Normalize[camera.up]

GetCameraRight(camera) ==
    Vector3Normalize[Vector3CrossProduct[GetCameraForward(camera), GetCameraUp(camera)]]

\* lines 258-262: the direction projected onto the world plane (the plane
\* defined by the up vector) and normalized
ProjectOnWorldPlane[camera \in rl_Camera3D, direction \in rl_Vector3] ==
    Vector3Normalize[
                  IF Abs(camera.up.z) > Frac(7071, 10000) THEN [direction EXCEPT !.z = 0]
                  ELSE IF Abs(camera.up.x) > Frac(7071, 10000) THEN [direction EXCEPT !.x = 0]
                  ELSE [direction EXCEPT !.y = 0]]

\* lines 269-270: position and target moved by the same offset
MoveBy[camera \in rl_Camera3D, offset \in rl_Vector3] ==
    [camera EXCEPT !.position = Vector3Add[camera.position, offset],
                             !.target = Vector3Add[camera.target, offset]]

\* CameraMoveForward with the target moved by the unscaled direction
CameraMoveForward_TargetUnscaled(camera, distance, moveInWorldPlane) ==
    [MoveBy[camera,
            Vector3Scale[IF moveInWorldPlane
                         THEN ProjectOnWorldPlane[camera, GetCameraForward(camera)]
                         ELSE GetCameraForward(camera), distance]]
        EXCEPT !.target =
            Vector3Add[camera.target,
                       IF moveInWorldPlane
                       THEN ProjectOnWorldPlane[camera, GetCameraForward(camera)]
                       ELSE GetCameraForward(camera)]]

CameraMoveForward(camera, distance, moveInWorldPlane) ==
    MoveBy[camera,
           Vector3Scale[IF moveInWorldPlane
                        THEN ProjectOnWorldPlane[camera, GetCameraForward(camera)]
                        ELSE GetCameraForward(camera), distance]]

\* CameraMoveUp with the position moved and the target left behind
CameraMoveUp_PositionOnly(camera, distance) ==
    [camera EXCEPT !.position =
                   Vector3Add[camera.position, Vector3Scale[GetCameraUp(camera), distance]]]

CameraMoveUp(camera, distance) == MoveBy[camera, Vector3Scale[GetCameraUp(camera), distance]]

CameraMoveRight(camera, distance, moveInWorldPlane) ==
    MoveBy[camera,
           Vector3Scale[IF moveInWorldPlane
                        THEN ProjectOnWorldPlane[camera, GetCameraRight(camera)]
                        ELSE GetCameraRight(camera), distance]]

\* lines 321-322: the position set at the distance from the target, against
\* the forward vector
SetDistance[camera \in rl_Camera3D, distance \in Int] ==
    [camera EXCEPT !.position =
                   Vector3Add[camera.target,
                              Vector3Scale[GetCameraForward(camera), -distance]]]

\* lines 317-318: "Distance must be greater than 0"
ClampDistance[distance \in Int] == IF distance <= 0 THEN Frac(1, 1000) ELSE distance

\* CameraMoveToTarget with the collapsed distance set to 0 instead of 0.001
CameraMoveToTarget_ClampToZero(camera, delta) ==
    SetDistance[camera, Max(0, Vector3Distance[camera.position, camera.target] + delta)]

\* CameraMoveToTarget with every distance below 0.001 raised to 0.001
CameraMoveToTarget_ClampBelowEpsilon(camera, delta) ==
    SetDistance[camera,
                Max(Frac(1, 1000), Vector3Distance[camera.position, camera.target] + delta)]

\* CameraMoveToTarget with the position set along the forward vector, beyond
\* the target
CameraMoveToTarget_AlongForward(camera, delta) ==
    [camera EXCEPT !.position =
                   Vector3Add[camera.target,
                              Vector3Scale[GetCameraForward(camera),
                                           ClampDistance[Vector3Distance[camera.position,
                                                                         camera.target] + delta]]]]

CameraMoveToTarget(camera, delta) ==
    SetDistance[camera,
                ClampDistance[Vector3Distance[camera.position, camera.target] + delta]]

\* lines 340-349: the view vector targetPosition set from the target
\* (rotateAroundTarget) or from the position
SetView[camera \in rl_Camera3D, targetPosition \in rl_Vector3, rotateAroundTarget \in BOOLEAN] ==
    IF rotateAroundTarget
              THEN [camera EXCEPT !.position = Vector3Subtract[camera.target, targetPosition]]
              ELSE [camera EXCEPT !.target = Vector3Add[camera.position, targetPosition]]

\* CameraYaw that turns the target point instead of the view vector
CameraYaw_TurnsTarget(camera, angle, rotateAroundTarget) ==
    SetView[camera,
            Vector3RotateByAxisAngle[camera.target, GetCameraUp(camera), angle],
            rotateAroundTarget]

\* CameraYaw with the two branches exchanged
CameraYaw_Swapped(camera, angle, rotateAroundTarget) ==
    SetView[camera,
            Vector3RotateByAxisAngle[Vector3Subtract[camera.target, camera.position],
                                     GetCameraUp(camera), angle],
            ~rotateAroundTarget]

\* CameraYaw turning the other way
CameraYaw_Clockwise(camera, angle, rotateAroundTarget) ==
    SetView[camera,
            Vector3RotateByAxisAngle[Vector3Subtract[camera.target, camera.position],
                                     GetCameraUp(camera), -angle],
            rotateAroundTarget]

CameraYaw(camera, angle, rotateAroundTarget) ==
    SetView[camera,
            Vector3RotateByAxisAngle[Vector3Subtract[camera.target, camera.position],
                                     GetCameraUp(camera), angle],
            rotateAroundTarget]

\* lines 372-379: angle brought below maxAngleUp, then above maxAngleDown
ClampAngle[angle \in Int, maxAngleUp \in Int, maxAngleDown \in Int] ==
    Max(maxAngleDown, Min(angle, maxAngleUp))

\* the clamp without the 0.001 margin: the view may reach the pole
PitchClamp_NoMargin(camera, angle) ==
    ClampAngle[angle,
               Vector3Angle[GetCameraUp(camera),
                            Vector3Subtract[camera.target, camera.position]],
               -Vector3Angle[Vector3Negate[GetCameraUp(camera)],
                             Vector3Subtract[camera.target, camera.position]]]

\* the clamp of CameraPitch under lockView
PitchClamp(camera, angle) ==
    ClampAngle[angle,
               Vector3Angle[GetCameraUp(camera),
                            Vector3Subtract[camera.target, camera.position]] - Frac(1, 1000),
               -Vector3Angle[Vector3Negate[GetCameraUp(camera)],
                             Vector3Subtract[camera.target, camera.position]] + Frac(1, 1000)]

\* lines 383-403: the view vector, and the up vector under rotateUp, rotated
\* around the right axis
PitchAbout[camera \in rl_Camera3D, angle \in Int, right \in rl_Vector3, rotateAroundTarget \in BOOLEAN, rotateUp \in BOOLEAN] ==
    [SetView[camera,
                       Vector3RotateByAxisAngle[Vector3Subtract[camera.target, camera.position],
                                                right, angle],
                       rotateAroundTarget]
                  EXCEPT !.up = IF rotateUp THEN Vector3RotateByAxisAngle[camera.up, right, angle]
                                ELSE camera.up]

\* CameraPitch that turns up by the requested angle, the view by the clamped one
CameraPitch_UpByRequested(camera, angle, lockView, rotateAroundTarget, rotateUp) ==
    [PitchAbout[camera, IF lockView THEN PitchClamp(camera, angle) ELSE angle,
                GetCameraRight(camera), rotateAroundTarget, FALSE]
        EXCEPT !.up = IF rotateUp
                      THEN Vector3RotateByAxisAngle[camera.up, GetCameraRight(camera), angle]
                      ELSE camera.up]

CameraPitch(camera, angle, lockView, rotateAroundTarget, rotateUp) ==
    PitchAbout[camera, IF lockView THEN PitchClamp(camera, angle) ELSE angle,
               GetCameraRight(camera), rotateAroundTarget, rotateUp]

\* CameraRoll about the right axis instead of the forward axis
CameraRoll_AboutRight(camera, angle) ==
    [camera EXCEPT !.up = Vector3RotateByAxisAngle[camera.up, GetCameraRight(camera), angle]]

CameraRoll(camera, angle) ==
    [camera EXCEPT !.up = Vector3RotateByAxisAngle[camera.up, GetCameraForward(camera), angle]]

----------------------------------------------------------------------------
(* rcore: the input and timing state rl_UpdateCamera reads.  An input      *)
(* state is a record [currentKeyState, previousKeyState, mouseDelta,       *)
(* wheelMove, middleDown, gamepadReady, axis, frameTime]; the key states   *)
(* are the sets of keys that are down.                                     *)

rl_IsKeyDown(in, key) == key \in in.currentKeyState

rl_IsKeyPressed(in, key) == key \in in.currentKeyState /\ key \notin in.previousKeyState

rl_GetMouseDelta(in) == in.mouseDelta

rl_GetMouseWheelMove(in) == in.wheelMove

rl_IsMouseButtonDown(in) == in.middleDown

rl_IsGamepadAvailable(in) == in.gamepadReady

rl_GetGamepadAxisMovement(in, axis) == in.axis[axis]

rl_GetFrameTime(in) == in.frameTime

----------------------------------------------------------------------------
(* rcamera.h: the two update entry points                                  *)

CAMERA_CUSTOM == 0

CAMERA_FREE == 1

CAMERA_ORBITAL == 2

CAMERA_FIRST_PERSON == 3

CAMERA_THIRD_PERSON == 4

CAMERA_PERSPECTIVE == 0

CAMERA_ORTHOGRAPHIC == 1

CAMERA_MOVE_SPEED == Frac(54, 10)

CAMERA_ROTATION_SPEED == Frac(3, 100)

CAMERA_PAN_SPEED == Frac(2, 10)

CAMERA_MOUSE_MOVE_SENSITIVITY == Frac(3, 1000)

CAMERA_ORBITAL_SPEED == Frac(5, 10)

\* pi/180 = 0.0174533
rl_DEG2RAD == 174533

\* the last of the values vs, which are computed one after the other: the
\* camera a group of statements starts from, then the camera it leaves
InOrder(vs) == vs[Len(vs)]

\* "if (cond) CameraPitch(camera, ...)": the conditional statements over the
\* primitives, each taking the camera the statement before it has left
PitchIf[cond \in BOOLEAN, camera \in rl_Camera3D, angle \in Int, lockView \in BOOLEAN, rotateAroundTarget \in BOOLEAN, rotateUp \in BOOLEAN] ==
    IF cond THEN CameraPitch(camera, angle, lockView, rotateAroundTarget, rotateUp)
              ELSE camera

YawIf[cond \in BOOLEAN, camera \in rl_Camera3D, angle \in Int, rotateAroundTarget \in BOOLEAN] ==
    IF cond THEN CameraYaw(camera, angle, rotateAroundTarget) ELSE camera

RollIf[cond \in BOOLEAN, camera \in rl_Camera3D, angle \in Int] ==
    IF cond THEN CameraRoll(camera, angle) ELSE camera

MoveForwardIf[cond \in BOOLEAN, camera \in rl_Camera3D, distance \in Int, moveInWorldPlane \in BOOLEAN] ==
    IF cond THEN CameraMoveForward(camera, distance, moveInWorldPlane) ELSE camera

MoveRightIf[cond \in BOOLEAN, camera \in rl_Camera3D, distance \in Int, moveInWorldPlane \in BOOLEAN] ==
    IF cond THEN CameraMoveRight(camera, distance, moveInWorldPlane) ELSE camera

MoveUpIf[cond \in BOOLEAN, camera \in rl_Camera3D, distance \in Int] ==
    IF cond THEN CameraMoveUp(camera, distance) ELSE camera

MoveToTargetIf[cond \in BOOLEAN, camera \in rl_Camera3D, delta \in Int] ==
    IF cond THEN CameraMoveToTarget(camera, delta) ELSE camera

\* the orbital branch with the mouse turning the camera as well
UpdateOrbital_MouseYaw(camera, in) ==
    CameraYaw([camera EXCEPT !.position =
                   Vector3Add[camera.target,
                              Vector3Transform[
                                  Vector3Subtract[camera.position, camera.target],
                                  MatrixRotate[GetCameraUp(camera),
                                               Mul[CAMERA_ORBITAL_SPEED, rl_GetFrameTime(in)]]]]],
              Mul[-rl_GetMouseDelta(in).x, CAMERA_MOUSE_MOVE_SENSITIVITY], TRUE)

\* lines 461-468: the orbital branch
UpdateOrbital(camera, in) ==
    InOrder(<<camera,
              [camera EXCEPT !.position =
                   Vector3Add[camera.target,
                              Vector3Transform[
                                  Vector3Subtract[camera.position, camera.target],
                                  MatrixRotate[GetCameraUp(camera),
                                               Mul[CAMERA_ORBITAL_SPEED, rl_GetFrameTime(in)]]]]]>>)

\* lines 471-477: rotation from the look and roll keys, the last statement
\* outermost
UpdateKeyRotation(camera, in, lockView, rotateAroundTarget, rotateUp) ==
    LET cameraRotationSpeed == Mul[CAMERA_ROTATION_SPEED, rl_GetFrameTime(in)]
    IN  RollIf[rl_IsKeyDown(in, "KEY_E"),
         RollIf[rl_IsKeyDown(in, "KEY_Q"),
          YawIf[rl_IsKeyDown(in, "KEY_LEFT"),
           YawIf[rl_IsKeyDown(in, "KEY_RIGHT"),
            PitchIf[rl_IsKeyDown(in, "KEY_UP"),
             PitchIf[rl_IsKeyDown(in, "KEY_DOWN"),
                     camera, -cameraRotationSpeed, lockView, rotateAroundTarget, rotateUp],
                    cameraRotationSpeed, lockView, rotateAroundTarget, rotateUp],
                 -cameraRotationSpeed, rotateAroundTarget],
                cameraRotationSpeed, rotateAroundTarget],
               -cameraRotationSpeed],
              cameraRotationSpeed]

\* lines 483-487: pan with the middle button in CAMERA_FREE
UpdatePan(camera, in, moveInWorldPlane) ==
    LET mouseDelta     == rl_GetMouseDelta(in)
        cameraPanSpeed == Mul[CAMERA_PAN_SPEED, rl_GetFrameTime(in)]
    IN  MoveUpIf[mouseDelta.y < 0,
         MoveUpIf[mouseDelta.y > 0,
          MoveRightIf[mouseDelta.x < 0,
           MoveRightIf[mouseDelta.x > 0, camera, cameraPanSpeed, moveInWorldPlane],
                      -cameraPanSpeed, moveInWorldPlane],
                  -cameraPanSpeed],
                 cameraPanSpeed]

\* lines 492-493: mouse look
UpdateMouseLook(camera, in, lockView, rotateAroundTarget, rotateUp) ==
    LET mousePositionDelta == rl_GetMouseDelta(in)
    IN  CameraPitch(CameraYaw(camera,
                              Mul[-mousePositionDelta.x, CAMERA_MOUSE_MOVE_SENSITIVITY],
                              rotateAroundTarget),
                    Mul[-mousePositionDelta.y, CAMERA_MOUSE_MOVE_SENSITIVITY],
                    lockView, rotateAroundTarget, rotateUp)

\* the pan with the middle button in every mode
UpdateMouse_PanAnyMode(camera, mode, in, moveInWorldPlane, lockView, rotateAroundTarget, rotateUp) ==
    InOrder(<<camera,
              IF rl_IsMouseButtonDown(in)
              THEN UpdatePan(camera, in, moveInWorldPlane)
              ELSE UpdateMouseLook(camera, in, lockView, rotateAroundTarget, rotateUp)>>)

\* lines 481-494: pan with the middle button in CAMERA_FREE, else mouse look
UpdateMouse(camera, mode, in, moveInWorldPlane, lockView, rotateAroundTarget, rotateUp) ==
    InOrder(<<camera,
              IF mode = CAMERA_FREE /\ rl_IsMouseButtonDown(in)
              THEN UpdatePan(camera, in, moveInWorldPlane)
              ELSE UpdateMouseLook(camera, in, lockView, rotateAroundTarget, rotateUp)>>)

\* lines 496-500: movement from the W, A, S, D keys
UpdateKeyMovement(camera, in, moveInWorldPlane) ==
    LET cameraMoveSpeed == Mul[CAMERA_MOVE_SPEED, rl_GetFrameTime(in)]
    IN  MoveRightIf[rl_IsKeyDown(in, "KEY_D"),
         MoveForwardIf[rl_IsKeyDown(in, "KEY_S"),
          MoveRightIf[rl_IsKeyDown(in, "KEY_A"),
           MoveForwardIf[rl_IsKeyDown(in, "KEY_W"), camera, cameraMoveSpeed, moveInWorldPlane],
                      -cameraMoveSpeed, moveInWorldPlane],
                       -cameraMoveSpeed, moveInWorldPlane],
                    cameraMoveSpeed, moveInWorldPlane]

\* lines 506-507: look from the right stick
UpdateGamepadLook(camera, in, lockView, rotateAroundTarget, rotateUp) ==
    CameraPitch(CameraYaw(camera,
                          Mul[-(rl_GetGamepadAxisMovement(in, "GAMEPAD_AXIS_RIGHT_X") * 2),
                              CAMERA_MOUSE_MOVE_SENSITIVITY],
                          rotateAroundTarget),
                Mul[-(rl_GetGamepadAxisMovement(in, "GAMEPAD_AXIS_RIGHT_Y") * 2),
                    CAMERA_MOUSE_MOVE_SENSITIVITY],
                lockView, rotateAroundTarget, rotateUp)

\* lines 509-512: movement from the left stick
UpdateGamepadMovement(camera, in, moveInWorldPlane) ==
    LET cameraMoveSpeed == Mul[CAMERA_MOVE_SPEED, rl_GetFrameTime(in)]
    IN  MoveRightIf[rl_GetGamepadAxisMovement(in, "GAMEPAD_AXIS_LEFT_X") >= Frac(25, 100),
         MoveForwardIf[rl_GetGamepadAxisMovement(in, "GAMEPAD_AXIS_LEFT_Y") >= Frac(25, 100),
          MoveRightIf[rl_GetGamepadAxisMovement(in, "GAMEPAD_AXIS_LEFT_X") <= -Frac(25, 100),
           MoveForwardIf[rl_GetGamepadAxisMovement(in, "GAMEPAD_AXIS_LEFT_Y") <= -Frac(25, 100),
                         camera, cameraMoveSpeed, moveInWorldPlane],
                      -cameraMoveSpeed, moveInWorldPlane],
                       -cameraMoveSpeed, moveInWorldPlane],
                    cameraMoveSpeed, moveInWorldPlane]

\* lines 502-513: gamepad sticks
UpdateGamepad(camera, in, moveInWorldPlane, lockView, rotateAroundTarget, rotateUp) ==
    InOrder(<<camera,
              IF rl_IsGamepadAvailable(in)
              THEN UpdateGamepadMovement(
                       UpdateGamepadLook(camera, in, lockView, rotateAroundTarget, rotateUp),
                       in, moveInWorldPlane)
              ELSE camera>>)

\* lines 515-519: vertical movement in CAMERA_FREE
UpdateVertical(camera, mode, in) ==
    LET cameraMoveSpeed == Mul[CAMERA_MOVE_SPEED, rl_GetFrameTime(in)]
    IN  InOrder(<<camera,
                  IF mode = CAMERA_FREE
                  THEN MoveUpIf[rl_IsKeyDown(in, "KEY_LEFT_CONTROL"),
                                MoveUpIf[rl_IsKeyDown(in, "KEY_SPACE"), camera, cameraMoveSpeed],
                                -cameraMoveSpeed]
                  ELSE camera>>)

\* the zoom with the two keys read by rl_IsKeyDown, like the other camera keys
ZoomTargetDistance_KeyDown(camera, in) ==
    MoveToTargetIf[rl_IsKeyDown(in, "KEY_KP_ADD"),
     MoveToTargetIf[rl_IsKeyDown(in, "KEY_KP_SUBTRACT"),
                    CameraMoveToTarget(camera, -rl_GetMouseWheelMove(in)),
                    2 * Scale],
                   -2 * Scale]

\* lines 525-527: zoom of the target distance
ZoomTargetDistance(camera, in) ==
    MoveToTargetIf[rl_IsKeyPressed(in, "KEY_KP_ADD"),
     MoveToTargetIf[rl_IsKeyPressed(in, "KEY_KP_SUBTRACT"),
                    CameraMoveToTarget(camera, -rl_GetMouseWheelMove(in)),
                    2 * Scale],
                   -2 * Scale]

\* zoom in every mode but CAMERA_CUSTOM
UpdateZoom_NotCustom(camera, mode, in) ==
    InOrder(<<camera, IF mode # CAMERA_CUSTOM THEN ZoomTargetDistance(camera, in) ELSE camera>>)

\* lines 522-528: zoom
UpdateZoom(camera, mode, in) ==
    InOrder(<<camera,
              IF mode = CAMERA_THIRD_PERSON \/ mode = CAMERA_ORBITAL \/ mode = CAMERA_FREE
              THEN ZoomTargetDistance(camera, in) ELSE camera>>)

\* moveInWorldPlane with CAMERA_FIRST_PERSON left out
MoveInWorldPlane_ThirdPersonOnly(mode) == mode = CAMERA_THIRD_PERSON

\* lines 449-452: the flags of the mode
MoveInWorldPlane(mode) == mode = CAMERA_FIRST_PERSON \/ mode = CAMERA_THIRD_PERSON

\* rotateAroundTarget with CAMERA_FIRST_PERSON in the place of CAMERA_THIRD_PERSON
RotateAroundTarget_FirstPerson(mode) == mode = CAMERA_FIRST_PERSON \/ mode = CAMERA_ORBITAL

RotateAroundTarget(mode) == mode = CAMERA_THIRD_PERSON \/ mode = CAMERA_ORBITAL

\* lockView with CAMERA_FIRST_PERSON left out
LockView_NotFirstPerson(mode) ==
    mode = CAMERA_FREE \/ mode = CAMERA_THIRD_PERSON \/ mode = CAMERA_ORBITAL

LockView(mode) ==
    mode = CAMERA_FREE \/ mode = CAMERA_FIRST_PERSON
        \/ mode = CAMERA_THIRD_PERSON \/ mode = CAMERA_ORBITAL

\* rotateUp set in CAMERA_FREE
RotateUp_Free(mode) == mode = CAMERA_FREE

RotateUp(mode) == FALSE

\* lines 470-520: the statements of the modes that are neither
\* CAMERA_CUSTOM nor CAMERA_ORBITAL
UpdateControls(camera, mode, in, moveInWorldPlane, lockView, rotateAroundTarget, rotateUp) ==
    UpdateVertical(
        UpdateGamepad(
            UpdateKeyMovement(
                UpdateMouse(
                    UpdateKeyRotation(camera, in, lockView, rotateAroundTarget, rotateUp),
                    mode, in, moveInWorldPlane, lockView, rotateAroundTarget, rotateUp),
                in, moveInWorldPlane),
            in, moveInWorldPlane, lockView, rotateAroundTarget, rotateUp),
        mode, in)

\* rl_UpdateCamera without the test for CAMERA_CUSTOM
rl_UpdateCamera_NoCustomTest(camera, mode, in) ==
    UpdateZoom(IF mode = CAMERA_ORBITAL THEN UpdateOrbital(camera, in)
               ELSE UpdateControls(camera, mode, in, MoveInWorldPlane(mode), LockView(mode),
                                   RotateAroundTarget(mode), RotateUp(mode)),
               mode, in)

rl_UpdateCamera(camera, mode, in) ==
    UpdateZoom(IF mode = CAMERA_CUSTOM THEN camera
               ELSE IF mode = CAMERA_ORBITAL THEN UpdateOrbital(camera, in)
               ELSE UpdateControls(camera, mode, in, MoveInWorldPlane(mode), LockView(mode),
                                   RotateAroundTarget(mode), RotateUp(mode)),
               mode, in)

\* rl_UpdateCameraPro that hands the yaw and the pitch on with the caller's sign
rl_UpdateCameraPro_SignsKept(camera, movement, rotation, zoom) ==
    CameraMoveToTarget(
     CameraMoveUp(
      CameraMoveRight(
       CameraMoveForward(
        CameraRoll(
         CameraYaw(
          CameraPitch(camera, Mul[rotation.y, rl_DEG2RAD], TRUE, FALSE, FALSE),
                   Mul[rotation.x, rl_DEG2RAD], FALSE),
                  Mul[rotation.z, rl_DEG2RAD]),
                         movement.x, TRUE),
                       movement.y, TRUE),
                  movement.z),
                       zoom)

\* rl_UpdateCameraPro with the yaw before the pitch
rl_UpdateCameraPro_YawFirst(camera, movement, rotation, zoom) ==
    CameraMoveToTarget(
     CameraMoveUp(
      CameraMoveRight(
       CameraMoveForward(
        CameraRoll(
         CameraPitch(
          CameraYaw(camera, Mul[-rotation.x, rl_DEG2RAD], FALSE),
                     Mul[-rotation.y, rl_DEG2RAD], TRUE, FALSE, FALSE),
                   Mul[rotation.z, rl_DEG2RAD]),
                         movement.x, TRUE),
                       movement.y, TRUE),
                  movement.z),
                       zoom)

rl_UpdateCameraPro(camera, movement, rotation, zoom) ==
    LET lockView           == TRUE
        rotateAroundTarget == FALSE
        rotateUp           == FALSE
        moveInWorldPlane   == TRUE
    IN  CameraMoveToTarget(
         CameraMoveUp(
          CameraMoveRight(
           CameraMoveForward(
            CameraRoll(
             CameraYaw(
              CameraPitch(camera, Mul[-rotation.y, rl_DEG2RAD],
                          lockView, rotateAroundTarget, rotateUp),
                       Mul[-rotation.x, rl_DEG2RAD], rotateAroundTarget),
                      Mul[rotation.z, rl_DEG2RAD]),
                             movement.x, moveInWorldPlane),
                           movement.y, moveInWorldPlane),
                      movement.z),
                           zoom)

----------------------------------------------------------------------------
(* View and projection matrices                                           *)

\* the culling distances: the macros expand to the build's RL_CULL_DISTANCE_NEAR
\* and RL_CULL_DISTANCE_FAR, kept by name
CAMERA_CULL_DISTANCE_NEAR == "RL_CULL_DISTANCE_NEAR"

CAMERA_CULL_DISTANCE_FAR == "RL_CULL_DISTANCE_FAR"

\* a matrix of raymath is kept as the constructor that made it and the
\* arguments it was given
MatrixLookAt(eye, target, up) ==
    [fn |-> "MatrixLookAt", eye |-> eye, target |-> target, up |-> up]

MatrixPerspective(fovY, aspect, nearPlane, farPlane) ==
    [fn |-> "MatrixPerspective", fovY |-> fovY, aspect |-> aspect,
     nearPlane |-> nearPlane, farPlane |-> farPlane]

MatrixOrtho(left, right, bottom, top, nearPlane, farPlane) ==
    [fn |-> "MatrixOrtho", left |-> left, right |-> right, bottom |-> bottom, top |-> top,
     nearPlane |-> nearPlane, farPlane |-> farPlane]

MatrixIdentity == [fn |-> "MatrixIdentity"]

GetCameraViewMatrix(camera) ==
    MatrixLookAt(camera.position, camera.target, camera.up)

\* the orthographic matrix of a view volume of half height top
OrthoOfTop(top, aspect) ==
    MatrixOrtho(-Mul[top, aspect], Mul[top, aspect], -top, top,
                CAMERA_CULL_DISTANCE_NEAR, CAMERA_CULL_DISTANCE_FAR)

\* GetCameraProjectionMatrix that takes fovy for the half height
GetCameraProjectionMatrix_FullHeight(camera, aspect) ==
    IF camera.projection = CAMERA_PERSPECTIVE
    THEN MatrixPerspective(Mul[camera.fovy, rl_DEG2RAD], aspect,
                           CAMERA_CULL_DISTANCE_NEAR, CAMERA_CULL_DISTANCE_FAR)
    ELSE IF camera.projection = CAMERA_ORTHOGRAPHIC
    THEN OrthoOfTop(camera.fovy, aspect)
    ELSE MatrixIdentity

\* GetCameraProjectionMatrix that takes every projection but the perspective
\* one for the orthographic one
GetCameraProjectionMatrix_OrthoDefault(camera, aspect) ==
    IF camera.projection = CAMERA_PERSPECTIVE
    THEN MatrixPerspective(Mul[camera.fovy, rl_DEG2RAD], aspect,
                           CAMERA_CULL_DISTANCE_NEAR, CAMERA_CULL_DISTANCE_FAR)
    ELSE OrthoOfTop(Div[camera.fovy, 2 * Scale], aspect)

GetCameraProjectionMatrix(camera, aspect) ==
    IF camera.projection = CAMERA_PERSPECTIVE
    THEN MatrixPerspective(Mul[camera.fovy, rl_DEG2RAD], aspect,
                           CAMERA_CULL_DISTANCE_NEAR, CAMERA_CULL_DISTANCE_FAR)
    ELSE IF camera.projection = CAMERA_ORTHOGRAPHIC
    THEN OrthoOfTop(Div[camera.fovy, 2 * Scale], aspect)
    ELSE MatrixIdentity

----------------------------------------------------------------------------
(* rcore_memory.c, rcore_template.c: the window                           *)

\* the renderer the memory platform works with, kept by name
RL_OPENGL_11_SOFTWARE == "RL_OPENGL_11_SOFTWARE"

\* rl_WindowShouldClose that does not look at ready
rl_WindowShouldClose_IgnoresReady(w) == w.shouldClose

\* the same text in both platforms
rl_WindowShouldClose(w) == IF w.ready THEN w.shouldClose ELSE TRUE

\* InitPlatform: the window after the call and the value returned; the
\* template platform has no test that fails
InitPlatform(w) ==
    IF w.platform = "memory" /\ w.renderer # RL_OPENGL_11_SOFTWARE
    THEN [window |-> w, result |-> -1]
    ELSE [window |-> [w EXCEPT !.ready = TRUE], result |-> 0]

\* the window part of rl_PollInputEvents: the memory platform reads the
\* console, given as the characters waiting there, and closes on escape
PolledWindow(w, console) ==
    IF w.platform = "memory" /\ Len(console) > 0 /\ Head(console) = 27
    THEN [w EXCEPT !.shouldClose = TRUE]
    ELSE w

----------------------------------------------------------------------------
(* State                                                                   *)

VARIABLES
    camera,     \* the rl_Camera the application passes to every call
    input,      \* CORE.Input and CORE.Time as read by rl_UpdateCamera
    window,     \* the platform, its renderer and CORE.Window.ready, shouldClose
    hist        \* the calls made so far, each with the camera before and after

vars == <<camera, input, window, hist>>

\* bounds of the model: calls in SpecPrim, in Spec, in SpecUpdate, in SpecHeld,
\* in SpecView, in SpecPan and in SpecWindow, and the largest coordinate in
\* world units
MaxCalls == 1

MaxSteps == 2

MaxFrames == 3

MaxHeld == 4

MaxQueries == 3

MaxPans == 2

MaxWindowCalls == 4

MaxCoord == 40

\* x, y, z given in thousandths
Milli(x, y, z) == Vec(Frac(x, 1000), Frac(y, 1000), Frac(z, 1000))

Cam(position, target, up, fovy, projection) ==
    [position |-> position, target |-> target, up |-> up,
     fovy |-> fovy, projection |-> projection]

\* cameras an application may construct: the camera of the scenarios, a generic
\* one, one with a long z up, one with a tilted up, one within 0.0005 rad of
\* the pole, one at the pole, one with position = target and one with a short
\* z up
Cameras ==
    { Cam(Milli(0, 0, 10000), Milli(0, 0, 0), Milli(0, 1000, 0), 45 * Scale, CAMERA_PERSPECTIVE),
      Cam(Milli(3000, 2000, 1000), Milli(0, 0, 0), Milli(0, 1000, 0), 45 * Scale, CAMERA_PERSPECTIVE),
      Cam(Milli(4000, 0, 2000), Milli(1000, 1000, 0), Milli(0, 0, 2000), 10 * Scale, CAMERA_ORTHOGRAPHIC),
      Cam(Milli(0, 1000, 5000), Milli(0, 1000, 0), Milli(800, 600, 0), 45 * Scale, CAMERA_PERSPECTIVE),
      Cam(Milli(0, 0, 0), Milli(1, 2000, 0), Milli(0, 1000, 0), 45 * Scale, CAMERA_PERSPECTIVE),
      Cam(Milli(0, -3000, 0), Milli(0, 0, 0), Milli(0, 1000, 0), 45 * Scale, CAMERA_PERSPECTIVE),
      Cam(Milli(1000, 1000, 1000), Milli(1000, 1000, 1000), Milli(0, 1000, 0), 45 * Scale,
          CAMERA_PERSPECTIVE),
      Cam(Milli(2000, 1000, 3000), Milli(0, 0, 0), Milli(0, 0, 500), 45 * Scale,
          CAMERA_PERSPECTIVE) }

NoAxis ==
    [a \in {"GAMEPAD_AXIS_LEFT_X", "GAMEPAD_AXIS_LEFT_Y",
            "GAMEPAD_AXIS_RIGHT_X", "GAMEPAD_AXIS_RIGHT_Y"} |-> 0]

Axes(lx, ly, rx, ry) ==
    [NoAxis EXCEPT !["GAMEPAD_AXIS_LEFT_X"] = lx, !["GAMEPAD_AXIS_LEFT_Y"] = ly,
                   !["GAMEPAD_AXIS_RIGHT_X"] = rx, !["GAMEPAD_AXIS_RIGHT_Y"] = ry]

\* what the devices report in one frame: keys down, mouse delta in pixels,
\* wheel, middle button, gamepad, frame time
Frame(keys, dx, dy, wheel, middle, ready, axis, time) ==
    [keys |-> keys, mouseDelta |-> [x |-> dx * Scale, y |-> dy * Scale],
     wheelMove |-> wheel * Scale, middleDown |-> middle, gamepadReady |-> ready,
     axis |-> axis, frameTime |-> time]

Frames ==
    { Frame({}, 0, 0, 0, FALSE, FALSE, NoAxis, Frac(1, 10)),
      Frame({"KEY_W", "KEY_D", "KEY_UP", "KEY_LEFT", "KEY_E"}, -40, -200, 0, FALSE, FALSE,
            NoAxis, Frac(1, 10)),
      Frame({"KEY_S", "KEY_A", "KEY_DOWN", "KEY_RIGHT", "KEY_Q", "KEY_KP_SUBTRACT"},
            30, 200, -1, TRUE, FALSE, NoAxis, Frac(1, 10)),
      Frame({"KEY_KP_ADD", "KEY_SPACE"}, 0, 0, 1, TRUE, FALSE, NoAxis, Scale),
      Frame({"KEY_LEFT_CONTROL"}, 0, 0, 0, TRUE, TRUE,
            Axes(-Scale, Scale, Frac(5, 10), -Scale), Frac(1, 10)),
      Frame({}, 0, 0, 2, FALSE, TRUE, Axes(Frac(3, 10), -Frac(3, 10), 0, 0), Scale),
      Frame({"KEY_UP", "KEY_LEFT", "KEY_E"}, 25, -15, 0, FALSE, TRUE,
            Axes(0, 0, Frac(5, 10), -Scale), Frac(1, 10)),
      Frame({"KEY_W", "KEY_A"}, 0, 0, 0, FALSE, TRUE,
            Axes(Frac(3, 10), -Frac(3, 10), 0, 0), Frac(1, 10)) }

\* frames in which a zoom key is down and nothing else happens
HeldFrames ==
    { Frame({"KEY_KP_SUBTRACT"}, 0, 0, 0, FALSE, FALSE, NoAxis, Frac(1, 10)),
      Frame({"KEY_KP_ADD"}, 0, 0, 0, FALSE, FALSE, NoAxis, Frac(1, 10)) }

\* frames in which the mouse moves and nothing else happens, with the middle
\* button down and up
PanFrames ==
    { Frame({}, 30, -20, 0, TRUE, FALSE, NoAxis, Frac(1, 10)),
      Frame({}, -30, 20, 0, TRUE, FALSE, NoAxis, Frac(1, 10)),
      Frame({}, 30, 20, 0, FALSE, FALSE, NoAxis, Frac(1, 10)) }

Modes == {CAMERA_CUSTOM, CAMERA_FREE, CAMERA_ORBITAL, CAMERA_FIRST_PERSON, CAMERA_THIRD_PERSON,
          CAMERA_THIRD_PERSON + 1}

InRange(v) ==
    /\ Abs(v.x) <= MaxCoord * Scale
    /\ Abs(v.y) <= MaxCoord * Scale
    /\ Abs(v.z) <= MaxCoord * Scale

\* a call of a camera operation: the camera is replaced by the result
Call(op, args, result) ==
    /\ camera' = result
    /\ InRange(result.position) /\ InRange(result.target)
    /\ hist' = Append(hist, [op |-> op, args |-> args, in |-> input,
                              pre |-> camera, post |-> result])
    /\ UNCHANGED <<input, window>>

IdleInput ==
    [currentKeyState |-> {}, previousKeyState |-> {},
     mouseDelta |-> [x |-> 0, y |-> 0], wheelMove |-> 0, middleDown |-> FALSE,
     gamepadReady |-> FALSE, axis |-> NoAxis, frameTime |-> 0]

\* the window of an application that calls the camera operations: the
\* memory platform, initialised
ReadyWindow ==
    [platform |-> "memory", renderer |-> RL_OPENGL_11_SOFTWARE,
     ready |-> TRUE, shouldClose |-> FALSE]

Init ==
    /\ camera \in Cameras
    /\ input = IdleInput
    /\ window = ReadyWindow
    /\ hist = <<[op |-> "init", args |-> <<>>, in |-> input, pre |-> camera, post |-> camera]>>

\* the input state after a poll that finds the devices as in frame f
Polled(in, f) ==
    [currentKeyState |-> f.keys, previousKeyState |-> in.currentKeyState,
     mouseDelta |-> f.mouseDelta, wheelMove |-> f.wheelMove, middleDown |-> f.middleDown,
     gamepadReady |-> f.gamepadReady, axis |-> f.axis, frameTime |-> f.frameTime]

\* the end of a frame: the current key state becomes the previous one and the
\* devices' new state is registered
PollInputEvents(frames, consoles) ==
    \E f \in frames, console \in consoles :
        /\ input' = Polled(input, f)
        /\ window' = PolledWindow(window, console)
        /\ hist' = Append(hist, [op |-> "rl_PollInputEvents", args |-> <<>>, in |-> input',
                                  pre |-> camera, post |-> camera])
        /\ UNCHANGED camera

\* nothing typed at the console
Quiet == {<<>>}

rl_PollInputEvents == PollInputEvents(Frames, Quiet)

\* a poll that finds a zoom key down
PollHeld == PollInputEvents(HeldFrames, Quiet)

PollPan == PollInputEvents(PanFrames, Quiet)

Distances == {-5 * Scale, 5 * Scale}

Angles == {-Frac(3, 10), HalfPI}

PitchAngles == {-HalfPI, -Frac(3, 10), 3 * Scale}

\* lockView, rotateAroundTarget, rotateUp
PitchFlags ==
    { <<TRUE, TRUE, FALSE>>, <<TRUE, FALSE, FALSE>>, <<TRUE, FALSE, TRUE>>,
      <<FALSE, TRUE, FALSE>>, <<FALSE, FALSE, TRUE>> }

Deltas == {-20 * Scale, -10 * Scale, -Frac(99995, 10000), 5 * Scale}

\* movement, rotation in degrees, zoom
ProInputs ==
    { <<Milli(1000, 0, 0), Milli(0, 0, 0), 0>>,
      <<Milli(500, -500, 1000), Milli(10000, -100000, 5000), -2 * Scale>>,
      <<Milli(0, 0, 0), Milli(-90000, 100000, 0), -20 * Scale>>,
      <<Milli(0, 0, 0), Milli(30000, 120000, 20000), 0>> }

MoveForward ==
    \E d \in Distances, w \in BOOLEAN :
        Call("CameraMoveForward", [distance |-> d, moveInWorldPlane |-> w],
             CameraMoveForward(camera, d, w))

MoveUp ==
    \E d \in Distances : Call("CameraMoveUp", [distance |-> d], CameraMoveUp(camera, d))

MoveRight ==
    \E d \in Distances, w \in BOOLEAN :
        Call("CameraMoveRight", [distance |-> d, moveInWorldPlane |-> w],
             CameraMoveRight(camera, d, w))

MoveToTarget ==
    \E d \in Deltas : Call("CameraMoveToTarget", [delta |-> d], CameraMoveToTarget(camera, d))

Yaw ==
    \E a \in Angles, t \in BOOLEAN :
        Call("CameraYaw", [angle |-> a, rotateAroundTarget |-> t], CameraYaw(camera, a, t))

Pitch ==
    \E a \in PitchAngles, f \in PitchFlags :
        Call("CameraPitch",
             [angle |-> a, lockView |-> f[1], rotateAroundTarget |-> f[2], rotateUp |-> f[3]],
             CameraPitch(camera, a, f[1], f[2], f[3]))

Roll ==
    \E a \in Angles : Call("CameraRoll", [angle |-> a], CameraRoll(camera, a))

UpdateCameraIn(modes) ==
    \E m \in modes : Call("rl_UpdateCamera", [mode |-> m], rl_UpdateCamera(camera, m, input))

UpdateCamera == UpdateCameraIn(Modes)

\* the modes that zoom
ZoomModes == {CAMERA_THIRD_PERSON, CAMERA_ORBITAL, CAMERA_FREE}

UpdateCameraZoom == UpdateCameraIn(ZoomModes)

\* the modes that look with the mouse
LookModes == {CAMERA_FREE, CAMERA_FIRST_PERSON, CAMERA_THIRD_PERSON}

UpdateCameraLook == UpdateCameraIn(LookModes)

UpdateCameraPro ==
    \E p \in ProInputs :
        Call("rl_UpdateCameraPro", [movement |-> p[1], rotation |-> p[2], zoom |-> p[3]],
             rl_UpdateCameraPro(camera, p[1], p[2], p[3]))


\* a reading call that stores the normalized up in the camera it reads
Query_StoresUp(op, args, value) ==
    /\ camera' = [camera EXCEPT !.up = GetCameraUp(camera)]
    /\ hist' = Append(hist, [op |-> op, args |-> args, in |-> input,
                              pre |-> camera, post |-> camera', value |-> value])
    /\ UNCHANGED <<input, window>>

\* a call that reads the camera: the camera stays, the value returned is kept
Query(op, args, value) ==
    /\ camera' = camera
    /\ hist' = Append(hist, [op |-> op, args |-> args, in |-> input,
                              pre |-> camera, post |-> camera, value |-> value])
    /\ UNCHANGED <<input, window>>

\* width over height of the viewport
Aspects == {Scale, 2 * Scale}

GetViewMatrix == Query("GetCameraViewMatrix", <<>>, GetCameraViewMatrix(camera))

GetProjectionMatrix ==
    \E aspect \in Aspects :
        Query("GetCameraProjectionMatrix", [aspect |-> aspect],
              GetCameraProjectionMatrix(camera, aspect))

GetForward == Query("GetCameraForward", <<>>, GetCameraForward(camera))

GetUp == Query("GetCameraUp", <<>>, GetCameraUp(camera))

GetRight == Query("GetCameraRight", <<>>, GetCameraRight(camera))

\* every public operation, in any order, MaxSteps calls in all
Next ==
    \/ Len(hist) <= MaxSteps /\ MoveForward
    \/ Len(hist) <= MaxSteps /\ MoveUp
    \/ Len(hist) <= MaxSteps /\ MoveRight
    \/ Len(hist) <= MaxSteps /\ MoveToTarget
    \/ Len(hist) <= MaxSteps /\ Yaw
    \/ Len(hist) <= MaxSteps /\ Pitch
    \/ Len(hist) <= MaxSteps /\ Roll
    \/ Len(hist) <= MaxSteps /\ UpdateCamera
    \/ Len(hist) <= MaxSteps /\ UpdateCameraPro
    \/ Len(hist) <= MaxSteps /\ rl_PollInputEvents

Spec == Init /\ [][Next]_vars

\* single calls of the primitives, MaxCalls in all
NextPrim ==
    \/ Len(hist) <= MaxCalls /\ MoveForward
    \/ Len(hist) <= MaxCalls /\ MoveUp
    \/ Len(hist) <= MaxCalls /\ MoveRight
    \/ Len(hist) <= MaxCalls /\ MoveToTarget
    \/ Len(hist) <= MaxCalls /\ Yaw
    \/ Len(hist) <= MaxCalls /\ Pitch
    \/ Len(hist) <= MaxCalls /\ Roll

SpecPrim == Init /\ [][NextPrim]_vars

\* an application that polls and calls rl_UpdateCamera, MaxFrames steps in all
NextUpdate ==
    \/ Len(hist) <= MaxFrames /\ rl_PollInputEvents
    \/ Len(hist) <= MaxFrames /\ UpdateCamera

SpecUpdate == Init /\ [][NextUpdate]_vars

\* an application whose user holds a zoom key down, in a mode that zooms,
\* MaxHeld steps in all
NextHeld ==
    \/ Len(hist) <= MaxHeld /\ PollHeld
    \/ Len(hist) <= MaxHeld /\ UpdateCameraZoom

SpecHeld == Init /\ [][NextHeld]_vars

\* an application whose user moves the mouse, with the middle button down or
\* up, in a mode that looks with the mouse, MaxPans steps in all
NextPan ==
    \/ Len(hist) <= MaxPans /\ PollPan
    \/ Len(hist) <= MaxPans /\ UpdateCameraLook

SpecPan == Init /\ [][NextPan]_vars

\* the cameras of an application that asks for matrices: the ones above and
\* one whose projection is neither of the two named ones
ViewCameras ==
    Cameras \cup
    { Cam(Milli(0, 0, 10000), Milli(0, 0, 0), Milli(0, 1000, 0), 45 * Scale,
          CAMERA_ORTHOGRAPHIC + 1) }

InitView ==
    /\ camera \in ViewCameras
    /\ input = IdleInput
    /\ window = ReadyWindow
    /\ hist = <<[op |-> "init", args |-> <<>>, in |-> input, pre |-> camera, post |-> camera]>>

\* an application that reads the matrices and the axes of its camera and
\* turns it in between, MaxQueries calls in all
NextView ==
    \/ Len(hist) <= MaxQueries /\ GetViewMatrix
    \/ Len(hist) <= MaxQueries /\ GetProjectionMatrix
    \/ Len(hist) <= MaxQueries /\ GetForward
    \/ Len(hist) <= MaxQueries /\ GetUp
    \/ Len(hist) <= MaxQueries /\ GetRight
    \/ Len(hist) <= MaxQueries /\ Yaw

SpecView == InitView /\ [][NextView]_vars

Platforms == {"memory", "template"}

Renderers == {RL_OPENGL_11_SOFTWARE, "RL_OPENGL_33"}

\* what may wait at the console at a poll: nothing, escape, another key
Consoles == {<<>>, <<27>>, <<65>>}

\* before InitPlatform: the window is not ready, on either platform, built
\* with either renderer
InitNotReady ==
    /\ camera = Cam(Milli(0, 0, 10000), Milli(0, 0, 0), Milli(0, 1000, 0), 45 * Scale,
                    CAMERA_PERSPECTIVE)
    /\ input = IdleInput
    /\ window \in [platform : Platforms, renderer : Renderers,
                    ready : {FALSE}, shouldClose : {FALSE}]
    /\ hist = <<[op |-> "init", args |-> <<>>, in |-> input, pre |-> camera, post |-> camera]>>

\* a call of a window function: the window before and after, the value returned
WindowCall(op, after, value) ==
    /\ window' = after
    /\ hist' = Append(hist, [op |-> op, args |-> <<>>, in |-> input, pre |-> camera,
                              post |-> camera, window |-> window, after |-> after,
                              value |-> value])
    /\ UNCHANGED <<camera, input>>

InitPlatformCall ==
    WindowCall("InitPlatform", InitPlatform(window).window, InitPlatform(window).result)

WindowShouldClose ==
    WindowCall("rl_WindowShouldClose", window, rl_WindowShouldClose(window))

\* a poll with the devices idle and the console as it may be
PollConsole == PollInputEvents({Frame({}, 0, 0, 0, FALSE, FALSE, NoAxis, Frac(1, 10))}, Consoles)

\* an application that initialises the platform, polls and asks whether to
\* close, MaxWindowCalls calls in all
NextWindow ==
    \/ Len(hist) <= MaxWindowCalls /\ InitPlatformCall
    \/ Len(hist) <= MaxWindowCalls /\ WindowShouldClose
    \/ Len(hist) <= MaxWindowCalls /\ PollConsole

SpecWindow == InitNotReady /\ [][NextWindow]_vars

----------------------------------------------------------------------------
(* Properties                                                              *)

\* the latest call
Last == hist[Len(hist)]

\* the camera the application constructed
Initial == hist[1].post

\* tolerance of a length or a coordinate: 0.00001
Tol == Frac(1, 100000)

Near(a, b) == Abs(a - b) <= Tol

NearVec(v1, v2) == Near(v1.x, v2.x) /\ Near(v1.y, v2.y) /\ Near(v1.z, v2.z)

Dist(c) == Vector3Distance[c.position, c.target]

MaxEpsilon(d) == IF d > Frac(1, 1000) THEN d ELSE Frac(1, 1000)

\* C2 as stated: for every camera and delta the distance after
\* CameraMoveToTarget is max(0.001, distance before + delta).
C2_DistanceIsMaxOfEpsilon ==
    Last.op = "CameraMoveToTarget" =>
        Near(Dist(Last.post), MaxEpsilon(Dist(Last.pre) + Last.args.delta))

\* C2 amended: for a camera with position # target the distance after
\* CameraMoveToTarget is distance before + delta when that is positive, and
\* 0.001 when it is zero or negative.
C2_DistanceClampedAtZero ==
    (Last.op = "CameraMoveToTarget" /\ Last.pre.position # Last.pre.target) =>
        LET moved == Dist(Last.pre) + Last.args.delta
        IN  Near(Dist(Last.post), IF moved > 0 THEN moved ELSE Frac(1, 1000))

\* a zoom that leaves a distance between 0 and 0.001
C2_Witness ==
    /\ Last.op = "CameraMoveToTarget"
    /\ Last.pre.position # Last.pre.target
    /\ Dist(Last.pre) + Last.args.delta > 0
    /\ Dist(Last.pre) + Last.args.delta < Frac(1, 1000)
    /\ Dist(Last.post) < Frac(1, 1000) - Tol

\* the angles of the view direction to the up vector and to its opposite
AngleToUp(c) == Vector3Angle[GetCameraUp(c), Vector3Subtract[c.target, c.position]]

AngleToDown(c) ==
    Vector3Angle[Vector3Negate[GetCameraUp(c)], Vector3Subtract[c.target, c.position]]

\* tolerance of an angle measured on a vector of the given length: 0.0002, or
\* three steps of the coordinate grid seen from that distance when that is more
AngleTolAt(length) == Max(Frac(2, 10000), RoundDiv[3 * Scale, Max(1, length)])

\* tolerance of an angle of the view direction of camera c
AngleTol(c) == AngleTolAt(Dist(c))

\* the view direction is defined and not along the up vector
ValidCamera(c) ==
    /\ c.position # c.target
    /\ Vector3CrossProduct[GetCameraForward(c), GetCameraUp(c)] # Vec(0, 0, 0)

\* the requested angle clamped into [-angle(-Up, forward) + 0.001, angle(Up, forward) - 0.001]
ClampedAngle(c, angle) ==
    Max(Min(angle, AngleToUp(c) - Frac(1, 1000)), -AngleToDown(c) + Frac(1, 1000))

\* C3 as stated: after CameraPitch with lockView the view direction has an
\* angle above 0 to Up and to -Up, for any requested angle.
C3_LockedPitchOffPoles ==
    (Last.op = "CameraPitch" /\ Last.args.lockView) =>
        AngleToUp(Last.post) > 0 /\ AngleToDown(Last.post) > 0

\* C3 amended: on a camera whose view direction is defined and not along its
\* up vector, CameraPitch with lockView leaves the view direction at an angle
\* above 0 to Up and to -Up.  Without rotateUp it turns the view by the
\* requested angle clamped into [-angle(-Up, forward) + 0.001,
\* angle(Up, forward) - 0.001], which leaves it 0.001 or more from both; with
\* rotateUp the up vector turns along and the angle between them is kept.
C3_LockedPitchClamped ==
    (Last.op = "CameraPitch" /\ Last.args.lockView /\ ValidCamera(Last.pre)) =>
        /\ AngleToUp(Last.post) > 0
        /\ AngleToDown(Last.post) > 0
        /\ ~Last.args.rotateUp =>
               /\ AngleToUp(Last.post) >= Frac(1, 1000) - AngleTol(Last.post)
               /\ AngleToDown(Last.post) >= Frac(1, 1000) - AngleTol(Last.post)
               /\ Abs(AngleToUp(Last.post) - (AngleToUp(Last.pre)
                        - ClampedAngle(Last.pre, Last.args.angle))) <= AngleTol(Last.post)
        /\ Last.args.rotateUp =>
               Abs(AngleToUp(Last.post) - AngleToUp(Last.pre)) <= AngleTol(Last.post)

\* a locked pitch by more than the angle to Up, stopped 0.001 short of it
C3_Witness ==
    /\ Last.op = "CameraPitch" /\ Last.args.lockView /\ ~Last.args.rotateUp
    /\ ValidCamera(Last.pre)
    /\ Last.args.angle > AngleToUp(Last.pre)
    /\ AngleToUp(Last.post) > 0
    /\ AngleToUp(Last.post) <= Frac(1, 1000) + AngleTol(Last.post)

\* C8: CameraYaw with rotateAroundTarget leaves the target as it was, without
\* it leaves the position as it was, and in both cases leaves up (and fovy and
\* projection) as they were.
C8_YawKeepsPivot ==
    Last.op = "CameraYaw" =>
        /\ Last.args.rotateAroundTarget => Last.post.target = Last.pre.target
        /\ ~Last.args.rotateAroundTarget => Last.post.position = Last.pre.position
        /\ Last.post.up = Last.pre.up
        /\ Last.post.fovy = Last.pre.fovy
        /\ Last.post.projection = Last.pre.projection

\* a yaw about the target that moved the position
C8_Witness ==
    /\ Last.op = "CameraYaw" /\ Last.args.rotateAroundTarget
    /\ Last.post.position # Last.pre.position
    /\ Last.post.target = Last.pre.target

\* the part of v perpendicular to the unit vector n
Perp(v, n) == Vector3Subtract[v, Vector3Scale[n, Vector3DotProduct[v, n]]]

\* C9: CameraRoll leaves position and target (and fovy and projection) as they
\* were and writes up only; up keeps its length and its component along the
\* forward axis, and on a camera whose view direction is defined and not along
\* up its part perpendicular to the forward axis turns by the angle.
C9_RollWritesUpOnly ==
    Last.op = "CameraRoll" =>
        LET forward == GetCameraForward(Last.pre)
        IN  /\ Last.post.position = Last.pre.position
            /\ Last.post.target = Last.pre.target
            /\ Last.post.fovy = Last.pre.fovy
            /\ Last.post.projection = Last.pre.projection
            /\ Near(Vector3Length[Last.post.up], Vector3Length[Last.pre.up])
            /\ Near(Vector3DotProduct[Last.post.up, forward],
                    Vector3DotProduct[Last.pre.up, forward])
            /\ ValidCamera(Last.pre) =>
                   Abs(Vector3Angle[Perp(Last.pre.up, forward), Perp(Last.post.up, forward)]
                       - Abs(Last.args.angle))
                       <= AngleTolAt(Vector3Length[Perp(Last.pre.up, forward)])

\* a roll that changed up
C9_Witness ==
    /\ Last.op = "CameraRoll"
    /\ ValidCamera(Last.pre)
    /\ Last.post.up # Last.pre.up
    /\ Last.post.position = Last.pre.position

\* the call before the latest
Prev == hist[Len(hist) - 1]

\* CameraMoveForward(distance, f) followed by CameraMoveForward(-distance, f)
RoundTrip ==
    /\ Len(hist) >= 3
    /\ Prev.op = "CameraMoveForward" /\ Last.op = "CameraMoveForward"
    /\ Prev.args.distance # 0
    /\ Last.args.distance = -Prev.args.distance
    /\ Last.args.moveInWorldPlane = Prev.args.moveInWorldPlane
    /\ Prev.pre.position # Prev.pre.target

\* C10: on a camera with position # target, CameraMoveForward(distance, f)
\* followed by CameraMoveForward(-distance, f), distance # 0, leaves position
\* and target where they were before the first call, within the tolerance.
C10_MoveForwardRoundTrip ==
    RoundTrip =>
        /\ NearVec(Last.post.position, Prev.pre.position)
        /\ NearVec(Last.post.target, Prev.pre.target)

\* a round trip in the world plane that moved the camera in between
C10_Witness ==
    /\ RoundTrip
    /\ Last.args.moveInWorldPlane
    /\ Prev.post.position # Prev.pre.position
    /\ Last.post.position = Prev.pre.position

\* the latest call is rl_UpdateCamera in one of the given modes
Updated(modes) == Last.op = "rl_UpdateCamera" /\ Last.args.mode \in modes

NamedModes ==
    {CAMERA_CUSTOM, CAMERA_FREE, CAMERA_ORBITAL, CAMERA_FIRST_PERSON, CAMERA_THIRD_PERSON}

\* C4 as stated: rl_UpdateCamera with a mode outside the five named ones
\* leaves position, target and up as they were, for every input state.
C4_UnknownModeIsNoOp ==
    Updated(Modes \ NamedModes) =>
        /\ Last.post.position = Last.pre.position
        /\ Last.post.target = Last.pre.target
        /\ Last.post.up = Last.pre.up

\* no key that turns or moves the camera is down, the mouse has not moved and
\* no gamepad is available
NoLookNoMove(in) ==
    /\ in.currentKeyState \cap {"KEY_DOWN", "KEY_UP", "KEY_RIGHT", "KEY_LEFT", "KEY_Q", "KEY_E",
                                "KEY_W", "KEY_A", "KEY_S", "KEY_D"} = {}
    /\ in.mouseDelta = [x |-> 0, y |-> 0]
    /\ ~in.gamepadReady

\* C4 amended: rl_UpdateCamera with a mode outside the five named ones takes
\* the branch of the moving modes with every mode flag false: it never zooms
\* (the distance from position to target stays, within the tolerance), and it
\* leaves the camera as it was exactly when no look, roll or move key is down,
\* the mouse has not moved and no gamepad is available, whatever the wheel,
\* the zoom keys, space, control and the middle button.
C4_UnknownModeMovesNoZoom ==
    Updated(Modes \ NamedModes) =>
        /\ Near(Dist(Last.post), Dist(Last.pre))
        /\ NoLookNoMove(Last.in) => Last.post = Last.pre

\* an update in an unknown mode with the wheel turned and a zoom key pressed
C4_Witness ==
    /\ Updated(Modes \ NamedModes)
    /\ NoLookNoMove(Last.in)
    /\ Last.in.wheelMove # 0
    /\ rl_IsKeyPressed(Last.in, "KEY_KP_ADD")
    /\ Last.pre.position # Last.pre.target
    /\ Last.post = Last.pre

\* C5: rl_UpdateCamera in CAMERA_CUSTOM leaves every field of the camera as it
\* was, for every input state.
C5_CustomIsNoOp == Updated({CAMERA_CUSTOM}) => Last.post = Last.pre

\* an update in CAMERA_CUSTOM with keys down, the mouse moved and the wheel turned
C5_Witness ==
    /\ Updated({CAMERA_CUSTOM})
    /\ "KEY_S" \in Last.in.currentKeyState
    /\ rl_IsKeyPressed(Last.in, "KEY_KP_SUBTRACT")
    /\ Last.in.mouseDelta.x # 0
    /\ Last.in.wheelMove # 0
    /\ Last.pre.position # Last.pre.target
    /\ Last.post = Last.pre

\* the input states a second call may find: any frame, polled after the
\* input state of the latest call or after an idle one
OtherInputs == {Polled(p, f) : p \in {IdleInput, Last.in}, f \in Frames}

\* C6 as stated: two rl_UpdateCamera calls in CAMERA_ORBITAL on equal cameras
\* with equal frame time give equal cameras, whatever the devices report.
C6_OrbitalIgnoresDevices ==
    Updated({CAMERA_ORBITAL}) =>
        \A in2 \in OtherInputs :
            in2.frameTime = Last.in.frameTime
                => rl_UpdateCamera(Last.pre, CAMERA_ORBITAL, in2) = Last.post

\* the wheel movement and the zoom keys pressed in this frame
ZoomInput(in) ==
    <<rl_GetMouseWheelMove(in), rl_IsKeyPressed(in, "KEY_KP_SUBTRACT"),
      rl_IsKeyPressed(in, "KEY_KP_ADD")>>

\* C6 amended: rl_UpdateCamera in CAMERA_ORBITAL depends on the frame time, the
\* mouse wheel and the presses of the two zoom keys only: two calls on equal
\* cameras that agree on these give equal cameras; without wheel movement and
\* zoom key the only effect is that position is rotated about Up through the
\* target by 0.5 rad/s x frame time.
C6_OrbitalDependsOnTimeAndZoom ==
    Updated({CAMERA_ORBITAL}) =>
        /\ \A in2 \in OtherInputs :
               (in2.frameTime = Last.in.frameTime /\ ZoomInput(in2) = ZoomInput(Last.in))
                   => rl_UpdateCamera(Last.pre, CAMERA_ORBITAL, in2) = Last.post
        /\ ZoomInput(Last.in) = <<0, FALSE, FALSE>> =>
               /\ Last.post.target = Last.pre.target
               /\ Last.post.up = Last.pre.up
               /\ NearVec(Last.post.position,
                          Vector3Add[Last.pre.target,
                              Vector3RotateByAxisAngle[
                                  Vector3Subtract[Last.pre.position, Last.pre.target],
                                  Last.pre.up, Mul[Frac(5, 10), Last.in.frameTime]]])

\* an orbital update with keys down, the mouse moved and no zoom input
C6_Witness ==
    /\ Updated({CAMERA_ORBITAL})
    /\ ZoomInput(Last.in) = <<0, FALSE, FALSE>>
    /\ "KEY_W" \in Last.in.currentKeyState
    /\ Last.in.mouseDelta.x # 0
    /\ Last.post.position # Last.pre.position

LockedModes == {CAMERA_FREE, CAMERA_ORBITAL, CAMERA_FIRST_PERSON, CAMERA_THIRD_PERSON}

\* every rl_UpdateCamera call so far was in one of the four moving modes
OnlyLockedModes ==
    \A i \in 2..Len(hist) :
        hist[i].op = "rl_UpdateCamera" => hist[i].args.mode \in LockedModes

\* the latest rl_UpdateCamera call performed a pitch: the mouse look (always
\* but in CAMERA_FREE with the middle button down), the gamepad or a look key
PitchPerformed ==
    /\ Updated({CAMERA_FREE, CAMERA_FIRST_PERSON, CAMERA_THIRD_PERSON})
    /\ \/ Last.args.mode # CAMERA_FREE
       \/ ~Last.in.middleDown
       \/ Last.in.gamepadReady
       \/ Last.in.currentKeyState \cap {"KEY_UP", "KEY_DOWN"} # {}

\* the least angle of the view direction of camera c to Up and to -Up
PoleAngle(c) == Min(AngleToUp(c), AngleToDown(c))

\* the forward vector of camera c is parallel or anti-parallel to its up vector
Parallel(c) == Vector3CrossProduct[GetCameraForward(c), GetCameraUp(c)] = Vec(0, 0, 0)

DistanceKept == \A i \in 1..Len(hist) : Dist(hist[i].post) >= Frac(1, 1000) - Tol

View(c) == Vector3Subtract[c.target, c.position]

\* the camera of the scenarios: position (0,0,10), target (0,0,0), up (0,1,0)
ScenarioCamera(c) ==
    /\ c.position = Milli(0, 0, 10000)
    /\ c.target = Milli(0, 0, 0)
    /\ c.up = Milli(0, 1000, 0)

\* the latest call is one of the three translations
Moved == Last.op \in {"CameraMoveForward", "CameraMoveUp", "CameraMoveRight"}

\* C11: CameraMoveForward, CameraMoveUp and CameraMoveRight add the same
\* displacement to position and to target, so target - position and up are as
\* they were; for CameraMoveForward(d, false) the displacement is d times the
\* unit vector along target - position; on the camera (0,0,10) -> (0,0,0)
\* CameraMoveForward(5, false) gives position (0,0,5) and target (0,0,-5).
C11_MovesTranslate ==
    Moved =>
        /\ Vector3Subtract[Last.post.position, Last.pre.position]
               = Vector3Subtract[Last.post.target, Last.pre.target]
        /\ View(Last.post) = View(Last.pre)
        /\ Last.post.up = Last.pre.up
        /\ (Last.op = "CameraMoveForward" /\ ~Last.args.moveInWorldPlane) =>
               NearVec(Vector3Scale[Vector3Subtract[Last.post.position, Last.pre.position],
                                    Dist(Last.pre)],
                       Vector3Scale[View(Last.pre), Last.args.distance])
        /\ (Last.op = "CameraMoveForward" /\ ~Last.args.moveInWorldPlane
                /\ ScenarioCamera(Last.pre) /\ Last.args.distance = 5 * Scale) =>
               /\ Last.post.position = Milli(0, 0, 5000)
               /\ Last.post.target = Milli(0, 0, -5000)

\* the example: CameraMoveForward(5, false) on the camera of the scenarios
C11_Witness ==
    /\ Last.op = "CameraMoveForward" /\ ~Last.args.moveInWorldPlane
    /\ ScenarioCamera(Last.pre) /\ Last.args.distance = 5 * Scale
    /\ Last.post.position = Milli(0, 0, 5000)
    /\ Last.post.target = Milli(0, 0, -5000)

\* C12: CameraMoveToTarget writes position only (target, up, fovy and
\* projection are as they were), and on a camera with position # target the
\* new position is on the line through the old position and the target, on
\* the same side of the target: the view direction is as it was.  On the
\* camera (0,0,10) -> (0,0,0) CameraMoveToTarget(5) gives distance 15 and
\* position (0,0,15).
C12_MoveToTargetWritesPosition ==
    Last.op = "CameraMoveToTarget" =>
        /\ Last.post.target = Last.pre.target
        /\ Last.post.up = Last.pre.up
        /\ Last.post.fovy = Last.pre.fovy
        /\ Last.post.projection = Last.pre.projection
        /\ Last.pre.position # Last.pre.target =>
               /\ Last.post.position # Last.post.target
               /\ Vector3Angle[View(Last.pre), View(Last.post)] <= AngleTol(Last.post)
        /\ (ScenarioCamera(Last.pre) /\ Last.args.delta = 5 * Scale) =>
               /\ Dist(Last.post) = 15 * Scale
               /\ Last.post.position = Milli(0, 0, 15000)

\* the example: CameraMoveToTarget(5) on the camera of the scenarios
C12_Witness ==
    /\ Last.op = "CameraMoveToTarget"
    /\ ScenarioCamera(Last.pre) /\ Last.args.delta = 5 * Scale
    /\ Last.post.position = Milli(0, 0, 15000)
    /\ Last.post.target = Last.pre.target

\* CameraYaw(pi/2, rotateAroundTarget = true) on the camera of the scenarios
QuarterTurn ==
    /\ Last.op = "CameraYaw" /\ Last.args.rotateAroundTarget
    /\ Last.args.angle = HalfPI
    /\ ScenarioCamera(Last.pre)

\* C13: on the camera (0,0,10) -> (0,0,0), up (0,1,0), CameraYaw(pi/2, true)
\* leaves the target at (0,0,0) and moves the position to (10,0,0), at
\* distance 10 from the target: the view vector is turned about +Y by the
\* right-hand rule.
C13_QuarterYaw ==
    QuarterTurn =>
        /\ Last.post.target = Milli(0, 0, 0)
        /\ NearVec(Last.post.position, Milli(10000, 0, 0))
        /\ Near(Dist(Last.post), 10 * Scale)

\* the quarter turn of the scenario, which moved the position off the z axis
C13_Witness ==
    /\ QuarterTurn
    /\ Last.post.position.x > 9 * Scale
    /\ Last.post.target = Last.pre.target

\* the keys that turn the camera, and those that move it
LookKeys == {"KEY_DOWN", "KEY_UP", "KEY_RIGHT", "KEY_LEFT", "KEY_Q", "KEY_E"}

MoveKeys == {"KEY_W", "KEY_A", "KEY_S", "KEY_D", "KEY_SPACE", "KEY_LEFT_CONTROL"}

\* the left stick is pushed past the threshold of a movement
LeftStickMoves(in) ==
    /\ in.gamepadReady
    /\ \/ Abs(in.axis["GAMEPAD_AXIS_LEFT_X"]) >= Frac(25, 100)
       \/ Abs(in.axis["GAMEPAD_AXIS_LEFT_Y"]) >= Frac(25, 100)

\* the devices ask for a rotation
TurnInput(in) ==
    \/ in.currentKeyState \cap LookKeys # {}
    \/ in.mouseDelta # [x |-> 0, y |-> 0]
    \/ /\ in.gamepadReady
       /\ \/ in.axis["GAMEPAD_AXIS_RIGHT_X"] # 0
          \/ in.axis["GAMEPAD_AXIS_RIGHT_Y"] # 0

\* the update performs rotations only: no movement key, no pan, no movement of
\* the left stick, no zoom input
RotationOnly(in) ==
    /\ TurnInput(in)
    /\ in.currentKeyState \cap MoveKeys = {}
    /\ ~in.middleDown
    /\ ~LeftStickMoves(in)
    /\ ZoomInput(in) = <<0, FALSE, FALSE>>

\* C14: an rl_UpdateCamera call that performs rotations only (look keys, mouse
\* delta, right stick) leaves the target where it was in CAMERA_THIRD_PERSON,
\* and the position where it was in CAMERA_FREE and CAMERA_FIRST_PERSON
\* (exactly in CAMERA_FIRST_PERSON; in CAMERA_FREE the zoom step sets the
\* position again at the distance it had, so it is the same within the
\* tolerance); CAMERA_ORBITAL leaves the target where it was in every call.
C14_RotationPivot ==
    /\ (Updated({CAMERA_THIRD_PERSON}) /\ RotationOnly(Last.in)) =>
           /\ Last.post.target = Last.pre.target
           /\ Near(Dist(Last.post), Dist(Last.pre))
    /\ (Updated({CAMERA_FIRST_PERSON}) /\ RotationOnly(Last.in)) =>
           Last.post.position = Last.pre.position
    /\ (Updated({CAMERA_FREE}) /\ RotationOnly(Last.in)) =>
           NearVec(Last.post.position, Last.pre.position)
    /\ Updated({CAMERA_ORBITAL}) => Last.post.target = Last.pre.target

\* a rotation in CAMERA_THIRD_PERSON that moved the position about the target,
\* after one in CAMERA_FIRST_PERSON that moved the target about the position
C14_Witness ==
    /\ Len(hist) = 4
    /\ hist[3].op = "rl_UpdateCamera" /\ hist[3].args.mode = CAMERA_FIRST_PERSON
    /\ RotationOnly(hist[3].in)
    /\ hist[3].post.target # hist[3].pre.target
    /\ hist[3].post.position = hist[3].pre.position
    /\ Updated({CAMERA_THIRD_PERSON}) /\ RotationOnly(Last.in)
    /\ Last.post.position # Last.pre.position
    /\ Last.post.target = Last.pre.target

\* 1 if b, else 0
Count(b) == IF b THEN 1 ELSE 0

\* the forward steps less the backward steps an update takes, and the steps to
\* the right less those to the left
ForwardSteps(in) ==
    Count("KEY_W" \in in.currentKeyState) - Count("KEY_S" \in in.currentKeyState)
        + Count(in.gamepadReady /\ in.axis["GAMEPAD_AXIS_LEFT_Y"] <= -Frac(25, 100))
        - Count(in.gamepadReady /\ in.axis["GAMEPAD_AXIS_LEFT_Y"] >= Frac(25, 100))

RightSteps(in) ==
    Count("KEY_D" \in in.currentKeyState) - Count("KEY_A" \in in.currentKeyState)
        + Count(in.gamepadReady /\ in.axis["GAMEPAD_AXIS_LEFT_X"] >= Frac(25, 100))
        - Count(in.gamepadReady /\ in.axis["GAMEPAD_AXIS_LEFT_X"] <= -Frac(25, 100))

\* the update moves forward, back or sideways and does nothing else: no
\* rotation input, no vertical key, no pan
WalkOnly(in) ==
    /\ in.currentKeyState \cap {"KEY_W", "KEY_A", "KEY_S", "KEY_D"} # {} \/ LeftStickMoves(in)
    /\ ~TurnInput(in)
    /\ in.currentKeyState \cap {"KEY_SPACE", "KEY_LEFT_CONTROL"} = {}
    /\ ~in.middleDown

\* the stored up vector has y as its dominant component
UpDominantY(c) ==
    /\ Abs(c.up.z) <= Frac(7071, 10000)
    /\ Abs(c.up.x) <= Frac(7071, 10000)

\* the displacement of the position in the latest call
Displacement == Vector3Subtract[Last.post.position, Last.pre.position]

\* the movement of ForwardSteps and RightSteps steps of the frame's speed along
\* the forward and right vectors of camera c
FreeFlight(c, in) ==
    Vector3Add[Vector3Scale[GetCameraForward(c),
                            ForwardSteps(in) * Mul[CAMERA_MOVE_SPEED, in.frameTime]],
               Vector3Scale[GetCameraRight(c),
                            RightSteps(in) * Mul[CAMERA_MOVE_SPEED, in.frameTime]]]

\* C15: with a stored up whose dominant component is y, an rl_UpdateCamera call
\* in CAMERA_FIRST_PERSON or CAMERA_THIRD_PERSON that moves by the W/A/S/D keys
\* or the left stick and does nothing else leaves position.y and target.y as
\* they were, whatever the pitch of the view; in CAMERA_FREE the same movement
\* is along the true forward and right vectors, so y changes with the pitch.
C15_WalkInWorldPlane ==
    /\ (Updated({CAMERA_FIRST_PERSON}) /\ WalkOnly(Last.in) /\ UpDominantY(Last.pre)) =>
           /\ Near(Last.post.position.y, Last.pre.position.y)
           /\ Near(Last.post.target.y, Last.pre.target.y)
    /\ (Updated({CAMERA_THIRD_PERSON}) /\ WalkOnly(Last.in) /\ UpDominantY(Last.pre)
            /\ ZoomInput(Last.in) = <<0, FALSE, FALSE>>) =>
           /\ Near(Last.post.position.y, Last.pre.position.y)
           /\ Near(Last.post.target.y, Last.pre.target.y)
    /\ (Updated({CAMERA_FREE}) /\ WalkOnly(Last.in) /\ ZoomInput(Last.in) = <<0, FALSE, FALSE>>
            /\ ValidCamera(Last.pre) /\ PoleAngle(Last.pre) >= Frac(1, 1000)) =>
           /\ NearVec(Displacement, FreeFlight(Last.pre, Last.in))
           /\ NearVec(Vector3Subtract[Last.post.target, Last.pre.target],
                      FreeFlight(Last.pre, Last.in))

\* a walk in CAMERA_FIRST_PERSON with the view pitched down that moved the
\* camera and kept its height, after a flight in CAMERA_FREE that changed it
C15_Witness ==
    /\ Len(hist) = 4
    /\ hist[3].op = "rl_UpdateCamera" /\ hist[3].args.mode = CAMERA_FREE
    /\ WalkOnly(hist[3].in) /\ UpDominantY(hist[3].pre)
    /\ Abs(hist[3].post.position.y - hist[3].pre.position.y) > Frac(1, 10)
    /\ Updated({CAMERA_FIRST_PERSON}) /\ WalkOnly(Last.in) /\ UpDominantY(Last.pre)
    /\ Abs(GetCameraForward(Last.pre).y) > Frac(1, 10)
    /\ Last.post.position # Last.pre.position
    /\ Last.post.position.y = Last.pre.position.y

\* the axis most aligned with the up vector of camera c: the one on which the
\* unit up vector has a component above 0.7071, and y when it has none
UpAxis(c) ==
    IF Abs(GetCameraUp(c).z) > Frac(7071, 10000) THEN "z"
    ELSE IF Abs(GetCameraUp(c).x) > Frac(7071, 10000) THEN "x"
    ELSE "y"

\* the component of v on the axis
Component(v, axis) == IF axis = "x" THEN v.x ELSE IF axis = "y" THEN v.y ELSE v.z

\* the latest call is a move in the world plane
MovedInWorldPlane ==
    /\ Last.op \in {"CameraMoveForward", "CameraMoveRight"}
    /\ Last.args.moveInWorldPlane

\* C16: with moveInWorldPlane, CameraMoveForward and CameraMoveRight move by a
\* vector whose component on the axis most aligned with the camera's up vector
\* is zero, for every stored up vector, of unit length or not, and whose
\* length is the distance (the projected vector is normalized again before it
\* is scaled).
C16_ZeroesAxisOfUp ==
    MovedInWorldPlane =>
        /\ Component(Displacement, UpAxis(Last.pre)) = 0
        /\ Displacement # Vec(0, 0, 0) => Near(Vector3Length[Displacement], Abs(Last.args.distance))

\* the input state with the zoom inputs taken out
NoZoom(in) ==
    [in EXCEPT !.wheelMove = 0,
               !.currentKeyState = @ \ {"KEY_KP_SUBTRACT", "KEY_KP_ADD"}]

\* the distance d after a zoom step of delta
Zoomed(d, delta) == IF d + delta <= 0 THEN Frac(1, 1000) ELSE d + delta

\* the camera the latest rl_UpdateCamera call would have left without zoom input
Unzoomed == rl_UpdateCamera(Last.pre, Last.args.mode, NoZoom(Last.in))

\* camera c is camera u zoomed to the distance d: target and up are those of
\* u, and when u has a view direction c has the same one, at the distance d
ZoomOf[c \in rl_Camera3D, u \in rl_Camera3D, d \in Int] ==
    /\ c.target = u.target
    /\ c.up = u.up
    /\ u.position # u.target =>
           /\ Near(Dist(c), d)
           /\ Vector3Angle[View(u), View(c)] <= AngleTol(u) + AngleTol(c)

\* camera c is camera u after the zoom steps of the input state
ZoomedBy[c \in rl_Camera3D, u \in rl_Camera3D, wheel \in Int, subtract \in BOOLEAN, add \in BOOLEAN] ==
    ZoomOf[c, u, Zoomed(Zoomed(Zoomed(Dist(u), -wheel), IF subtract THEN 2 * Scale ELSE 0),
                        IF add THEN -2 * Scale ELSE 0)]

\* C17: in CAMERA_FIRST_PERSON rl_UpdateCamera leaves the distance from
\* position to target as it was, whatever the input state; in
\* CAMERA_THIRD_PERSON, CAMERA_ORBITAL and CAMERA_FREE the zoom is applied to
\* the camera the rotation and movement of the call have left: target and up
\* are those of the call without zoom input, the distance is the distance of
\* that camera after the steps of the wheel and the two zoom keys, and the
\* view direction is the same.
C17_ZoomAfterMovement ==
    /\ Updated({CAMERA_FIRST_PERSON}) => Near(Dist(Last.post), Dist(Last.pre))
    /\ Updated({CAMERA_THIRD_PERSON, CAMERA_ORBITAL, CAMERA_FREE}) =>
           ZoomedBy[Last.post, Unzoomed, rl_GetMouseWheelMove(Last.in),
                    rl_IsKeyPressed(Last.in, "KEY_KP_SUBTRACT"),
                    rl_IsKeyPressed(Last.in, "KEY_KP_ADD")]

\* an update in CAMERA_FIRST_PERSON with the wheel turned that kept the
\* distance, after one in CAMERA_FREE with movement keys down that zoomed
C17_Witness ==
    /\ Len(hist) = 4
    /\ hist[3].op = "rl_UpdateCamera" /\ hist[3].args.mode = CAMERA_FREE
    /\ hist[3].in.wheelMove # 0
    /\ hist[3].in.currentKeyState \cap MoveKeys # {}
    /\ ~Near(Dist(hist[3].post), Dist(hist[3].pre))
    /\ Updated({CAMERA_FIRST_PERSON})
    /\ Last.in.wheelMove # 0
    /\ Last.pre.position # Last.pre.target
    /\ Near(Dist(Last.post), Dist(Last.pre))

\* the latest call is an rl_UpdateCamera in a mode that zooms, on a camera with
\* position # target, with the zoom key down and the other one up
HeldDown(key) ==
    /\ Updated(ZoomModes)
    /\ Last.pre.position # Last.pre.target
    /\ Last.in.currentKeyState \cap {"KEY_KP_SUBTRACT", "KEY_KP_ADD"} = {key}
    /\ Last.in.wheelMove = 0

\* C18 as stated: the zoom keys are read as keys that are down, so every
\* rl_UpdateCamera call in a mode that zooms made with a zoom key down applies
\* the step of the key to the distance.
C18_HeldKeyZoomsEveryUpdate ==
    /\ HeldDown("KEY_KP_SUBTRACT") => Near(Dist(Last.post), Dist(Last.pre) + 2 * Scale)
    /\ HeldDown("KEY_KP_ADD") => Near(Dist(Last.post), Zoomed(Dist(Last.pre), -2 * Scale))

\* C18 amended: the zoom keys are read as keys pressed, that is down at the
\* latest poll and up at the one before: an rl_UpdateCamera call in a mode
\* that zooms applies the step of a zoom key when the key was pressed in the
\* frame of the call, and leaves the distance as it was when the key is held
\* down from the frame before.
C18_PressedKeyZoomsOnce ==
    /\ HeldDown("KEY_KP_SUBTRACT") =>
           Near(Dist(Last.post),
                IF "KEY_KP_SUBTRACT" \in Last.in.previousKeyState THEN Dist(Last.pre)
                ELSE Dist(Last.pre) + 2 * Scale)
    /\ HeldDown("KEY_KP_ADD") =>
           Near(Dist(Last.post),
                IF "KEY_KP_ADD" \in Last.in.previousKeyState THEN Dist(Last.pre)
                ELSE Zoomed(Dist(Last.pre), -2 * Scale))

\* a zoom key held down over two frames: the update of the first frame zoomed
\* out by 2, the update of the second frame left the distance as it was
C18_Witness ==
    /\ Len(hist) = 5
    /\ hist[2].op = "rl_PollInputEvents" /\ hist[4].op = "rl_PollInputEvents"
    /\ hist[3].op = "rl_UpdateCamera" /\ Last.op = "rl_UpdateCamera"
    /\ hist[3].in.currentKeyState = {"KEY_KP_SUBTRACT"}
    /\ HeldDown("KEY_KP_SUBTRACT")
    /\ Near(Dist(hist[3].post), Dist(hist[3].pre) + 2 * Scale)
    /\ Near(Dist(Last.post), Dist(Last.pre))

\* the camera after step k of the seven steps on camera c: the pitch, the yaw,
\* the roll, the moves forward, to the right and up, and the zoom, each on the
\* camera the step before has left
ProStep[k \in 0..7, c \in rl_Camera3D, movement \in rl_Vector3, rotation \in rl_Vector3, zoom \in Int] ==
    IF k = 0 THEN c
    ELSE IF k = 1 THEN CameraPitch(c, Mul[-rotation.y, rl_DEG2RAD], TRUE, FALSE, FALSE)
    ELSE IF k = 2 THEN CameraYaw(c, Mul[-rotation.x, rl_DEG2RAD], FALSE)
    ELSE IF k = 3 THEN CameraRoll(c, Mul[rotation.z, rl_DEG2RAD])
    ELSE IF k = 4 THEN CameraMoveForward(c, movement.x, TRUE)
    ELSE IF k = 5 THEN CameraMoveRight(c, movement.y, TRUE)
    ELSE IF k = 6 THEN CameraMoveUp(c, movement.z)
    ELSE CameraMoveToTarget(c, zoom)

\* the camera after the first k of the seven steps, run one after the other
ProSteps[k \in 0..7, c \in rl_Camera3D, movement \in rl_Vector3, rotation \in rl_Vector3, zoom \in Int] ==
    IF k = 0 THEN c
    ELSE ProStep[k, ProSteps[k - 1, c, movement, rotation, zoom], movement, rotation, zoom]

\* C19: the result of rl_UpdateCameraPro is the result of the seven primitives
\* run in the order pitch, yaw, roll, forward, right, up, zoom, each on the
\* camera the one before has left.
C19_ProIsSevenSteps ==
    Last.op = "rl_UpdateCameraPro" =>
        Last.post = ProSteps[7, Last.pre, Last.args.movement, Last.args.rotation, Last.args.zoom]

\* a call with pitch, yaw, roll, movement and zoom, whose result the yaw run
\* before the pitch would not have given
C19_Witness ==
    /\ Last.op = "rl_UpdateCameraPro"
    /\ ValidCamera(Last.pre)
    /\ Last.args.rotation.x # 0 /\ Last.args.rotation.y # 0 /\ Last.args.rotation.z # 0
    /\ Last.args.movement.x # 0 /\ Last.args.movement.y # 0 /\ Last.args.movement.z # 0
    /\ Last.args.zoom # 0
    /\ Last.post # rl_UpdateCameraPro_YawFirst(Last.pre, Last.args.movement,
                                               Last.args.rotation, Last.args.zoom)

\* the latest call is rl_UpdateCameraPro without movement and zoom
ProTurn ==
    /\ Last.op = "rl_UpdateCameraPro"
    /\ Last.args.movement = Vec(0, 0, 0)
    /\ Last.args.zoom = 0

\* the latest call is rl_UpdateCameraPro with a move forward or to the right
\* and without a move up or a zoom
ProWalk ==
    /\ Last.op = "rl_UpdateCameraPro"
    /\ Last.args.movement.x # 0 \/ Last.args.movement.y # 0
    /\ Last.args.movement.z = 0
    /\ Last.args.zoom = 0

\* C20: rl_UpdateCameraPro runs with lockView, without rotateAroundTarget,
\* without rotateUp and with moveInWorldPlane.  Without movement and zoom, for
\* any rotation, the position is as it was (only the target is swept), a view
\* direction off the poles is kept 0.001 or more from both, and up changes by
\* the roll only: it keeps its length and its component along the view, and
\* without roll it is as it was.  A movement forward or to the right is a
\* translation in the world plane: its component on the axis most aligned
\* with the up vector is zero.
C20_ProPolicy ==
    /\ ProTurn =>
           /\ NearVec(Last.post.position, Last.pre.position)
           /\ ValidCamera(Last.pre) =>
                  PoleAngle(Last.post) >= Frac(1, 1000) - AngleTol(Last.post)
           /\ Near(Vector3Length[Last.post.up], Vector3Length[Last.pre.up])
           /\ Near(Vector3DotProduct[Last.post.up, GetCameraForward(Last.post)],
                   Vector3DotProduct[Last.pre.up, GetCameraForward(Last.post)])
           /\ Last.args.rotation.z = 0 => Last.post.up = Last.pre.up
    /\ ProWalk =>
           /\ Near(Component(Displacement, UpAxis(Last.post)), 0)
           /\ Last.pre.position # Last.pre.target =>
                  Near(Dist(Last.post), Dist(Last.pre))

\* the camera after the first k of the seven steps of rl_UpdateCameraPro on
\* camera c, when the pitch, the yaw and the roll receive the given angles
\* in radians
ProWith[k \in 0..7, c \in rl_Camera3D, movement \in rl_Vector3, pitch \in Int, yaw \in Int, roll \in Int, zoom \in Int] ==
    IF k = 0 THEN c
    ELSE IF k = 1 THEN CameraPitch(ProWith[0, c, movement, pitch, yaw, roll, zoom], pitch, TRUE, FALSE, FALSE)
    ELSE IF k = 2 THEN CameraYaw(ProWith[1, c, movement, pitch, yaw, roll, zoom], yaw, FALSE)
    ELSE IF k = 3 THEN CameraRoll(ProWith[2, c, movement, pitch, yaw, roll, zoom], roll)
    ELSE IF k = 4 THEN CameraMoveForward(ProWith[3, c, movement, pitch, yaw, roll, zoom], movement.x, TRUE)
    ELSE IF k = 5 THEN CameraMoveRight(ProWith[4, c, movement, pitch, yaw, roll, zoom], movement.y, TRUE)
    ELSE IF k = 6 THEN CameraMoveUp(ProWith[5, c, movement, pitch, yaw, roll, zoom], movement.z)
    ELSE CameraMoveToTarget(ProWith[6, c, movement, pitch, yaw, roll, zoom], zoom)

\* degrees in radians
Radians(degrees) == Mul[degrees, rl_DEG2RAD]

\* C21 as stated: rl_UpdateCameraPro hands CameraYaw rotation.x in radians,
\* CameraPitch rotation.y in radians and CameraRoll rotation.z in radians,
\* each with the sign the caller gave.
C21_AnglesWithCallerSign ==
    Last.op = "rl_UpdateCameraPro" =>
        Last.post = ProWith[7, Last.pre, Last.args.movement,
                            Radians(Last.args.rotation.y), Radians(Last.args.rotation.x),
                            Radians(Last.args.rotation.z), Last.args.zoom]

\* C21 amended: rl_UpdateCameraPro hands CameraYaw rotation.x in radians with
\* the sign reversed, CameraPitch rotation.y in radians with the sign
\* reversed, and CameraRoll rotation.z in radians with the sign the caller gave.
C21_YawAndPitchReversed ==
    Last.op = "rl_UpdateCameraPro" =>
        Last.post = ProWith[7, Last.pre, Last.args.movement,
                            Radians(-Last.args.rotation.y), Radians(-Last.args.rotation.x),
                            Radians(Last.args.rotation.z), Last.args.zoom]

\* a call with a yaw, a pitch and a roll whose result the angles with the
\* caller's sign would not have given
C21_Witness ==
    /\ Last.op = "rl_UpdateCameraPro"
    /\ ValidCamera(Last.pre)
    /\ Last.args.rotation.x # 0 /\ Last.args.rotation.y # 0 /\ Last.args.rotation.z # 0
    /\ Last.post # rl_UpdateCameraPro_SignsKept(Last.pre, Last.args.movement,
                                                Last.args.rotation, Last.args.zoom)

\* the calls that read the camera
Readers ==
    {"GetCameraViewMatrix", "GetCameraProjectionMatrix",
     "GetCameraForward", "GetCameraUp", "GetCameraRight"}

\* calls i and j are the same reading call with the same arguments, and no
\* call from i to j is anything but a reading call
SameReading(i, j) ==
    /\ i < j
    /\ hist[i].op = hist[j].op
    /\ \A k \in i..j : hist[k].op \in Readers
    /\ hist[i].args = hist[j].args

PerspectiveOf(c, aspect) ==
    GetCameraProjectionMatrix([c EXCEPT !.projection = CAMERA_PERSPECTIVE], aspect)

C24_IdentityForUnknownProjection ==
    (/\ Last.op = "GetCameraProjectionMatrix"
     /\ Last.pre.projection \notin {CAMERA_PERSPECTIVE, CAMERA_ORTHOGRAPHIC}) =>
        /\ Last.value.fn = MatrixIdentity.fn
        /\ DOMAIN Last.value = DOMAIN MatrixIdentity
        /\ Last.post = Last.pre

\* the projection matrix of a camera with the projection 2 is read
C24_Witness ==
    /\ Last.op = "GetCameraProjectionMatrix"
    /\ Last.pre.projection = CAMERA_ORTHOGRAPHIC + 1
    /\ Last.value.fn = "MatrixIdentity"
    /\ camera = Last.pre

\* C25: on a camera whose position equals its target, CameraMoveToTarget with
\* any delta leaves a distance of at least 0.001 between position and target.
C25_DegenerateDistanceClamped ==
    (Last.op = "CameraMoveToTarget" /\ Last.pre.position = Last.pre.target) =>
        Dist(Last.post) >= Frac(1, 1000) - Tol

\* the mouse has moved and no key, wheel or gamepad takes part
MouseOnly(in) ==
    /\ in.currentKeyState = {}
    /\ in.wheelMove = 0
    /\ ~in.gamepadReady
    /\ in.mouseDelta.x # 0 /\ in.mouseDelta.y # 0

\* the pan of camera c for the mouse delta of input in: the pan speed to the
\* right for a positive x, to the left for a negative x, down for a positive y,
\* up for a negative y
PanOf(c, in) ==
    Vector3Add[Vector3Scale[GetCameraRight(c),
                            Sgn(in.mouseDelta.x) * Mul[CAMERA_PAN_SPEED, in.frameTime]],
               Vector3Scale[GetCameraUp(c),
                            -Sgn(in.mouseDelta.y) * Mul[CAMERA_PAN_SPEED, in.frameTime]]]

\* the mouse look on camera c for the mouse delta of input in
LookOf(c, in, rotateAroundTarget) ==
    CameraPitch(CameraYaw(c, Mul[-in.mouseDelta.x, CAMERA_MOUSE_MOVE_SENSITIVITY],
                          rotateAroundTarget),
                Mul[-in.mouseDelta.y, CAMERA_MOUSE_MOVE_SENSITIVITY],
                TRUE, rotateAroundTarget, FALSE)

NearCamera(c1, c2) ==
    /\ NearVec(c1.position, c2.position)
    /\ NearVec(c1.target, c2.target)
    /\ NearVec(c1.up, c2.up)

\* C26: in CAMERA_FREE with the middle button down a mouse delta moves position
\* and target by the same pan (CameraMoveRight and CameraMoveUp by the pan
\* speed, direction by the sign of the delta) and turns nothing; in
\* CAMERA_FIRST_PERSON and CAMERA_THIRD_PERSON the result is the same with the
\* middle button down or up, and the mouse delta turns the camera by the yaw
\* and the pitch of the mouse look.
C26_PanOverridesLookInFreeOnly ==
    /\ (Updated({CAMERA_FREE}) /\ Last.in.middleDown /\ MouseOnly(Last.in)) =>
           /\ NearVec(Displacement, PanOf(Last.pre, Last.in))
           /\ NearVec(Vector3Subtract[Last.post.target, Last.pre.target],
                      PanOf(Last.pre, Last.in))
           /\ Last.post.up = Last.pre.up
    /\ Updated({CAMERA_FIRST_PERSON, CAMERA_THIRD_PERSON}) =>
           Last.post = rl_UpdateCamera(Last.pre, Last.args.mode,
                                       [Last.in EXCEPT !.middleDown = ~@])
    /\ (Updated({CAMERA_FIRST_PERSON, CAMERA_THIRD_PERSON}) /\ MouseOnly(Last.in)) =>
           NearCamera(Last.post,
                      LookOf(Last.pre, Last.in, Last.args.mode = CAMERA_THIRD_PERSON))

\* a pan in CAMERA_FREE, to the left and down, that moves the camera of the
\* scenarios without turning it
C26_Witness ==
    /\ Updated({CAMERA_FREE})
    /\ MouseOnly(Last.in)
    /\ Last.in.middleDown
    /\ Last.in.mouseDelta.x < 0 /\ Last.in.mouseDelta.y > 0
    /\ ScenarioCamera(Last.pre)
    /\ Near(Displacement.x, -Frac(2, 100)) /\ Near(Displacement.y, -Frac(2, 100))
    /\ NearVec(View(Last.post), View(Last.pre))

\* the angle CameraPitch turns the view of the latest call by
AppliedAngle ==
    IF Last.args.lockView THEN ClampedAngle(Last.pre, Last.args.angle) ELSE Last.args.angle

\* C27: CameraPitch leaves the target as it was with rotateAroundTarget and the
\* position without it, and writes the other one (on a camera with a defined
\* view off the poles, turned by an angle that is not 0, that one changes);
\* without rotateUp it leaves up as it was, and with rotateUp the new up is the
\* stored up turned about the right axis by the angle the view is turned by,
\* the clamped one with lockView.
C27_PitchWritesOneEndpoint ==
    Last.op = "CameraPitch" =>
        /\ Last.args.rotateAroundTarget => Last.post.target = Last.pre.target
        /\ ~Last.args.rotateAroundTarget => Last.post.position = Last.pre.position
        /\ (ValidCamera(Last.pre) /\ AppliedAngle # 0) =>
               (Last.post.position # Last.pre.position \/ Last.post.target # Last.pre.target)
        /\ ~Last.args.rotateUp => Last.post.up = Last.pre.up
        /\ Last.args.rotateUp =>
               Last.post.up = Vector3RotateByAxisAngle[Last.pre.up, GetCameraRight(Last.pre),
                                                       AppliedAngle]

\* a pitch with lockView and rotateUp whose requested angle is clamped, on a
\* camera with a defined view off the poles
C27_Witness ==
    /\ Last.op = "CameraPitch"
    /\ Last.args.lockView /\ Last.args.rotateUp
    /\ ValidCamera(Last.pre)
    /\ AppliedAngle # Last.args.angle
    /\ Last.post.up # Last.pre.up
    /\ Last.post.position = Last.pre.position
    /\ Last.post.target # Last.pre.target

Rotations == {"CameraYaw", "CameraPitch", "CameraRoll"}

\* every call so far is a yaw, a pitch or a roll
OnlyRotations == \A i \in 2..Len(hist) : hist[i].op \in Rotations

\* C28: CameraYaw and CameraPitch leave the distance between position and
\* target as it was, for every angle and every combination of flags, and after
\* a sequence of yaw, pitch and roll calls only, the distance is the one of the
\* start (within 0.00001 a call).
C28_RotationsKeepDistance ==
    /\ Last.op \in {"CameraYaw", "CameraPitch"} => Near(Dist(Last.post), Dist(Last.pre))
    /\ OnlyRotations => Abs(Dist(camera) - Dist(Initial)) <= (Len(hist) - 1) * Tol

\* a pitch that turns the position about the target after a yaw that turns
\* the target about the position, on a camera of distance above 3
C28_Witness ==
    /\ Len(hist) = 3
    /\ hist[2].op = "CameraYaw" /\ ~hist[2].args.rotateAroundTarget
    /\ Last.op = "CameraPitch" /\ Last.args.rotateAroundTarget /\ ~Last.args.lockView
    /\ Dist(Initial) > 3 * Scale
    /\ hist[2].post.target # Initial.target
    /\ camera.position # Initial.position
    /\ Near(Dist(camera), Dist(Initial))

\* a roll key is down at the latest call
RollKeyDown == Last.in.currentKeyState \cap {"KEY_Q", "KEY_E"} # {}

\* C29: across an rl_UpdateCamera call in one of the five named modes the
\* stored up changes only if KEY_Q or KEY_E is down and the mode is
\* CAMERA_FREE, CAMERA_FIRST_PERSON or CAMERA_THIRD_PERSON (no pitch runs
\* with rotateUp), never in CAMERA_ORBITAL or CAMERA_CUSTOM; and no camera
\* operation changes fovy or projection.
C29_UpChangesByRollOnly ==
    /\ (Updated(NamedModes) /\ Last.post.up # Last.pre.up) =>
           /\ Last.args.mode \in {CAMERA_FREE, CAMERA_FIRST_PERSON, CAMERA_THIRD_PERSON}
           /\ RollKeyDown
    /\ Updated({CAMERA_ORBITAL, CAMERA_CUSTOM}) => Last.post.up = Last.pre.up
    /\ Last.post.fovy = Last.pre.fovy
    /\ Last.post.projection = Last.pre.projection

\* an update in CAMERA_FREE that pitches by the right stick of the gamepad,
\* with no roll key down, on a camera with a defined view off the poles
C29_Witness ==
    /\ Updated({CAMERA_FREE})
    /\ ValidCamera(Last.pre)
    /\ ~RollKeyDown
    /\ Last.in.gamepadReady
    /\ Last.in.axis["GAMEPAD_AXIS_RIGHT_Y"] # 0
    /\ Last.post.target # Last.pre.target
    /\ Last.post.up = Last.pre.up

\* call i is an InitPlatform that has failed
FailedInit(i) == hist[i].op = "InitPlatform" /\ hist[i].value = -1

\* C30: on both platforms rl_WindowShouldClose returns TRUE while the window is
\* not ready, whatever shouldClose holds, and shouldClose once it is ready; on
\* the memory platform InitPlatform with a renderer other than the software
\* one returns -1 and leaves ready as it was, and every rl_WindowShouldClose
\* after it returns TRUE, whatever is polled in between.
C30_NotReadyWindowCloses ==
    /\ (Last.op = "rl_WindowShouldClose" /\ ~window.ready) => Last.value = TRUE
    /\ (Last.op = "rl_WindowShouldClose" /\ window.ready) => Last.value = window.shouldClose
    /\ Last.op = "rl_WindowShouldClose" => Last.after = Last.window
    /\ (/\ Last.op = "InitPlatform"
        /\ Last.window.platform = "memory"
        /\ Last.window.renderer # RL_OPENGL_11_SOFTWARE) =>
           (Last.value = -1 /\ Last.after = Last.window /\ ~window.ready)
    /\ \A i \in 2..Len(hist) :
           (FailedInit(i) /\ Last.op = "rl_WindowShouldClose" /\ i < Len(hist)) =>
               Last.value = TRUE

\* on the memory platform InitPlatform has failed, a poll has not found the
\* escape key, and rl_WindowShouldClose returns TRUE with shouldClose FALSE
C30_Witness ==
    /\ Len(hist) = 4
    /\ FailedInit(2)
    /\ hist[3].op = "rl_PollInputEvents"
    /\ Last.op = "rl_WindowShouldClose"
    /\ window.platform = "memory"
    /\ ~window.ready /\ ~window.shouldClose
    /\ Last.value = TRUE

====
